---- MODULE Spec2Model ----
(***************************************************************************)
(* Multi-tenant reporting dashboard: tenant resolution, impersonation,     *)
(* company switching and the tenant filters of the ticket, dashboard,      *)
(* monitoring and domain endpoints.                                        *)
(*                                                                         *)
(* The relational tables are the state.  Every HTTP handler is one action  *)
(* (middleware chain included) and leaves its answer in `resp`.            *)
(***************************************************************************)
EXTENDS Integers, Sequences, FiniteSets, TLC

VARIABLES
  user_profiles,             \* table user_profiles: user_id -> row
  user_companies,            \* table user_companies: set of <<user_id, company_id>>
  companies,                 \* table companies: set of company ids
  company_halopsa_clients,   \* table: set of <<company_id, halopsa_client_id>>
  company_ninjaone_orgs,     \* table: set of <<company_id, ninjaone_org_id>>
  company_domain_assignments,\* table: set of <<company_id, domain_name>>
  company_20i_stackcp_users, \* table: set of <<company_id, stackcp_user_id>>
  clients,                   \* table clients (set of rows)
  tickets,                   \* table tickets (set of rows)
  feedback,                  \* table feedback (set of rows)
  otherTickets,              \* a second store: same in-scope rows, other tenants' rows differ
  otherFeedback,             \* feedback table of the second store
  ninjaDevices,              \* upstream monitoring: devices as /v2/devices returns them
  twentyiDomains,            \* upstream hosting: domains as getDomains() enriches them
  halo,                      \* upstream PSA: what the Client, Tickets, Feedback endpoints hold
  sync_metadata,             \* table sync_metadata: rows in insertion order
  syncRun,                   \* position and log of the background synchronisation run
  accessToken,               \* sync-service.js: the cached PSA token
  serverRunning,             \* the server process is alive
  clock,                     \* Date.now(), in seconds
  tokenCache,                \* token caches of the PSA and monitoring clients
  dataCache,                 \* data caches of the hosting and monitoring clients
  calls,                     \* calls of the clients' cached functions: caller -> call
  upstreamCalls,             \* requests the providers have answered, by resource
  nOps,                      \* number of table-changing admin operations so far
  resp,                      \* answer of the last request
  otherResp                  \* answer the same request gets from the second store

tenantTables == <<user_profiles, user_companies>>
mappingTables == <<companies, company_halopsa_clients, company_ninjaone_orgs,
                   company_domain_assignments, company_20i_stackcp_users>>
psaTables == <<clients, tickets, feedback, otherTickets, otherFeedback>>
upstream == <<ninjaDevices, twentyiDomains, halo>>
syncState == <<sync_metadata, syncRun, accessToken, serverRunning>>
cacheState == <<clock, tokenCache, dataCache, calls, upstreamCalls>>
vars == <<user_profiles, user_companies, companies, company_halopsa_clients,
          company_ninjaone_orgs, company_domain_assignments,
          company_20i_stackcp_users, clients, tickets, feedback, otherTickets,
          otherFeedback, ninjaDevices, twentyiDomains, halo, sync_metadata, syncRun,
          accessToken, serverRunning, clock, tokenCache, dataCache, calls,
          upstreamCalls, nOps, resp, otherResp>>

----------------------------------------------------------------------------
(* Values *)

NULL == "null"
Undefined == "undefined"
SUPER_ADMIN == "super_admin"
CUSTOMER == "customer"

\* absent timestamp / score of a nullable integer column
NoDate == 0 - 1
NoScore == 0 - 1

\* Bounds of the model
NumCompanies == 2
MaxOps == 3

CompanyNames == <<"c1", "c2", "c3", "c4">>
CompanyIds == {CompanyNames[i] : i \in 1..NumCompanies}
\* a UUID that is no row of table companies
GhostCompany == "c0"

\* auth.users: two administrators, a customer, and a user without a profile row
Admin1 == "admin1"
Admin2 == "admin2"
Cust == "cust"
NoProfileUser == "ghost"
AuthUsers == {Admin1, Admin2, Cust, NoProfileUser}

Profile(role, active, imp) ==
  [role |-> role, active_company_id |-> active, impersonating_user_id |-> imp]

\* JavaScript truthiness of a nullable id
Truthy(v) == v /= NULL /\ v /= Undefined /\ v /= ""

\* Array.prototype.includes on a sequence
Includes(seq, v) == \E i \in 1..Len(seq) : seq[i] = v

SeqToSet(seq) == {seq[i] : i \in 1..Len(seq)}

----------------------------------------------------------------------------
(* Tenant resolution *)

NoCtx ==
  [role |-> "none", isSuperAdmin |-> FALSE, isRealSuperAdmin |-> FALSE,
   activeCompanyId |-> NULL, isImpersonating |-> FALSE]

Rejected(code) == [status |-> code, ctx |-> NoCtx]

\* variant: the customer-without-company check is missing
ResolvedNoCompanyCheck(profile, isReal, isImp) ==
  [status |-> 0,
   ctx |-> [role |-> profile.role,
            isSuperAdmin |-> profile.role = SUPER_ADMIN,
            isRealSuperAdmin |-> isReal,
            activeCompanyId |-> profile.active_company_id,
            isImpersonating |-> isImp]]

\* the tail of injectCompanyContext: the company check and the injected context
Resolved(profile, isReal, isImp) ==
  IF profile.role = CUSTOMER /\ ~Truthy(profile.active_company_id)
  THEN Rejected(403)
  ELSE [status |-> 0,
        ctx |-> [role |-> profile.role,
                 isSuperAdmin |-> profile.role = SUPER_ADMIN,
                 isRealSuperAdmin |-> isReal,
                 activeCompanyId |-> profile.active_company_id,
                 isImpersonating |-> isImp]]

\* variant: the role flag is taken from the authenticated profile
InjectCompanyContextOwnRole(profiles, userId) ==
  IF userId \notin DOMAIN profiles THEN Rejected(403)
  ELSE LET actualProfile == profiles[userId]
           imp == actualProfile.impersonating_user_id
       IN IF Truthy(imp)
          THEN IF imp \notin DOMAIN profiles THEN Rejected(403)
               ELSE Resolved(Profile(actualProfile.role,
                                     profiles[imp].active_company_id, imp),
                             actualProfile.role = SUPER_ADMIN, TRUE)
          ELSE Resolved(actualProfile, actualProfile.role = SUPER_ADMIN, FALSE)

\* injectCompanyContext: status 0 stands for next()
InjectCompanyContext(profiles, userId) ==
  IF userId \notin DOMAIN profiles THEN Rejected(403)
  ELSE LET actualProfile == profiles[userId]
           imp == actualProfile.impersonating_user_id
       IN IF Truthy(imp)
          THEN IF imp \notin DOMAIN profiles THEN Rejected(403)
               ELSE Resolved(profiles[imp], actualProfile.role = SUPER_ADMIN, TRUE)
          ELSE Resolved(actualProfile, actualProfile.role = SUPER_ADMIN, FALSE)

\* injectCompanyContext of the release without impersonation
InjectCompanyContextLegacy(profiles, userId) ==
  IF userId \notin DOMAIN profiles THEN Rejected(403)
  ELSE LET profile == profiles[userId]
       IN IF profile.role = CUSTOMER /\ ~Truthy(profile.active_company_id)
          THEN Rejected(403)
          ELSE [status |-> 0,
                ctx |-> [role |-> profile.role,
                         isSuperAdmin |-> profile.role = SUPER_ADMIN,
                         isRealSuperAdmin |-> FALSE,
                         activeCompanyId |-> profile.active_company_id,
                         isImpersonating |-> FALSE]]

----------------------------------------------------------------------------
(* Profile operations: routes/user-profile.js and the SQL functions *)

\* auth.uid() inside an RPC made with the service-role client: the request
\* carries no user JWT, so there is no subject
AuthUid == NULL

\* switch_active_company(new_company_id)
SwitchActiveCompany(profiles, ucs, newCompanyId) ==
  IF <<AuthUid, newCompanyId>> \notin ucs
  THEN [ok |-> FALSE, profiles |-> profiles]
  ELSE [ok |-> TRUE,
        profiles |-> [u \in DOMAIN profiles |->
                        IF u = AuthUid
                        THEN [profiles[u] EXCEPT !.active_company_id = newCompanyId]
                        ELSE profiles[u]]]

\* variant: the target is only checked to exist, as start_impersonation(target) did
StartImpersonationAnyTarget(profiles, adminUserId, targetUserId) ==
  IF ~(adminUserId \in DOMAIN profiles /\ profiles[adminUserId].role = SUPER_ADMIN)
  THEN [ok |-> FALSE, profiles |-> profiles]
  ELSE IF targetUserId \notin DOMAIN profiles
  THEN [ok |-> FALSE, profiles |-> profiles]
  ELSE [ok |-> TRUE,
        profiles |-> [profiles EXCEPT
                        ![adminUserId].impersonating_user_id = targetUserId]]

\* start_impersonation(admin_user_id, target_user_id)
StartImpersonation(profiles, adminUserId, targetUserId) ==
  IF ~(adminUserId \in DOMAIN profiles /\ profiles[adminUserId].role = SUPER_ADMIN)
  THEN [ok |-> FALSE, profiles |-> profiles]
  ELSE IF ~(targetUserId \in DOMAIN profiles /\ profiles[targetUserId].role = CUSTOMER)
  THEN [ok |-> FALSE, profiles |-> profiles]
  ELSE [ok |-> TRUE,
        profiles |-> [profiles EXCEPT
                        ![adminUserId].impersonating_user_id = targetUserId]]

\* stop_impersonation(admin_user_id)
StopImpersonationRpc(profiles, adminUserId) ==
  [u \in DOMAIN profiles |->
     IF u = adminUserId
     THEN [profiles[u] EXCEPT !.impersonating_user_id = NULL]
     ELSE profiles[u]]

Answer(op, user, arg, status, ctx, body) ==
  [op |-> op, user |-> user, arg |-> arg, status |-> status, ctx |-> ctx, body |-> body]

NoBody == {}

\* a handler that writes tables counts against MaxOps when it changes them
Writes(newProfiles, newUcs) ==
  LET changed == newProfiles /= user_profiles \/ newUcs /= user_companies
  IN /\ changed => nOps < MaxOps
     /\ nOps' = IF changed THEN nOps + 1 ELSE nOps
     /\ user_profiles' = newProfiles
     /\ user_companies' = newUcs

\* POST /api/profile/switch-company
PostSwitchCompany(caller, companyId) ==
  LET r == SwitchActiveCompany(user_profiles, user_companies, companyId)
      status == IF ~Truthy(companyId) THEN 400
                ELSE IF ~r.ok THEN 403 ELSE 200
  IN /\ Writes(IF status = 400 THEN user_profiles ELSE r.profiles, user_companies)
     /\ resp' = Answer("switch-company", caller, companyId, status, NoCtx, NoBody)
     /\ otherResp' = resp'
     /\ UNCHANGED <<mappingTables, psaTables, upstream, syncState, cacheState>>

\* POST /api/profile/impersonate/:targetUserId
PostImpersonate(caller, targetUserId) ==
  LET adminOk == caller \in DOMAIN user_profiles
                   /\ user_profiles[caller].role = SUPER_ADMIN
      targetOk == targetUserId \in DOMAIN user_profiles
      r == StartImpersonation(user_profiles, caller, targetUserId)
      status == IF ~adminOk THEN 403
                ELSE IF ~targetOk THEN 404
                ELSE IF ~r.ok THEN 403 ELSE 200
  IN /\ Writes(IF adminOk /\ targetOk THEN r.profiles ELSE user_profiles,
               user_companies)
     /\ resp' = Answer("impersonate", caller, targetUserId, status, NoCtx, NoBody)
     /\ otherResp' = resp'
     /\ UNCHANGED <<mappingTables, psaTables, upstream, syncState, cacheState>>

\* variant: the profile router mounted behind injectCompanyContext
PostStopImpersonationBehindContext(caller) ==
  LET r == InjectCompanyContext(user_profiles, caller)
  IN /\ Writes(IF r.status /= 0 THEN user_profiles
               ELSE StopImpersonationRpc(user_profiles, caller), user_companies)
     /\ resp' = Answer("stop-impersonation", caller, NULL,
                       IF r.status /= 0 THEN r.status ELSE 200, NoCtx, NoBody)
     /\ otherResp' = resp'
     /\ UNCHANGED <<mappingTables, psaTables, upstream, syncState, cacheState>>

\* POST /api/profile/stop-impersonation
PostStopImpersonation(caller) ==
  /\ Writes(StopImpersonationRpc(user_profiles, caller), user_companies)
  /\ resp' = Answer("stop-impersonation", caller, NULL, 200, NoCtx, NoBody)
  /\ otherResp' = resp'
  /\ UNCHANGED <<mappingTables, psaTables, upstream, syncState, cacheState>>

----------------------------------------------------------------------------
(* Time: timestamps are ticks, TicksPerDay of them to a calendar day *)

TicksPerDay == 2
Days(n) == n * TicksPerDay
\* the instant of the request (new Date()), and the calendar day of a timestamp
Now == Days(500) + 1
DayOf(ts) == ts \div TicksPerDay

----------------------------------------------------------------------------
(* Tenant filter over the PSA tables *)

\* company_halopsa_clients rows of a company, mapped to halopsa_client_id
AllowedClientIds(companyId) ==
  {m[2] : m \in {x \in company_halopsa_clients : x[1] = companyId}}

\* CURRENT_DATE - INTERVAL '12 months', taken as 365 days before today's midnight
ActiveClientsWindowDays == 365
\* view active_clients: clients joined with their tickets of the last 12 months
ActiveClients(tks) ==
  {c \in clients :
     \E t \in tks : /\ t.client_id = c.id
                    /\ t.date_occurred >= Days(DayOf(Now) - ActiveClientsWindowDays)}

\* GET /api/clients
GetClients(caller) ==
  LET r == InjectCompanyContext(user_profiles, caller)
      allowed == AllowedClientIds(r.ctx.activeCompanyId)
      visible(tks) ==
        IF r.ctx.isSuperAdmin THEN {c.id : c \in ActiveClients(tks)}
        ELSE {c.id : c \in {x \in ActiveClients(tks) : x.id \in allowed}}
      status == IF r.status /= 0 THEN r.status
                ELSE IF ~r.ctx.isSuperAdmin /\ ~Truthy(r.ctx.activeCompanyId) THEN 403
                ELSE 200
  IN /\ resp' = Answer("clients", caller, NULL, status, r.ctx,
                       IF status = 200 THEN visible(tickets) ELSE NoBody)
     /\ otherResp' = Answer("clients", caller, NULL, status, r.ctx,
                            IF status = 200 THEN visible(otherTickets) ELSE NoBody)
     /\ UNCHANGED <<tenantTables, mappingTables, psaTables, upstream, syncState, cacheState, nOps>>

\* GET /api/clients behind the injectCompanyContext of the release without impersonation
GetClientsLegacy(caller) ==
  LET r == InjectCompanyContextLegacy(user_profiles, caller)
      allowed == AllowedClientIds(r.ctx.activeCompanyId)
      visible(tks) ==
        IF r.ctx.isSuperAdmin THEN {c.id : c \in ActiveClients(tks)}
        ELSE {c.id : c \in {x \in ActiveClients(tks) : x.id \in allowed}}
      status == IF r.status /= 0 THEN r.status
                ELSE IF ~r.ctx.isSuperAdmin /\ ~Truthy(r.ctx.activeCompanyId) THEN 403
                ELSE 200
  IN /\ resp' = Answer("clients-legacy", caller, NULL, status, r.ctx,
                       IF status = 200 THEN visible(tickets) ELSE NoBody)
     /\ otherResp' = Answer("clients-legacy", caller, NULL, status, r.ctx,
                            IF status = 200 THEN visible(otherTickets) ELSE NoBody)
     /\ UNCHANGED <<tenantTables, mappingTables, psaTables, upstream, syncState, cacheState, nOps>>

----------------------------------------------------------------------------
(* Admin user management: routes/admin-users.js *)

\* requireAuth, injectCompanyContext, requireSuperAdmin: 0 when the handler runs
AdminGate(caller) ==
  LET r == InjectCompanyContext(user_profiles, caller)
  IN IF r.status /= 0 THEN r.status
     ELSE IF ~r.ctx.isSuperAdmin THEN 403 ELSE 0

\* insert into user_companies fails on a company that does not exist (foreign
\* key) or on a pair given twice (unique constraint)
AssignmentInsertFails(companyIds) ==
  \/ \E i \in 1..Len(companyIds) : companyIds[i] \notin companies
  \/ \E i, j \in 1..Len(companyIds) : i /= j /\ companyIds[i] = companyIds[j]

\* companyIds of a request body that has no such field
NotGiven == <<Undefined>>

\* PUT /api/admin/users/:userId with body {role, companyIds}
UpdateUser(profiles, ucs, userId, role, companyIds) ==
  IF userId \notin DOMAIN profiles
  THEN [status |-> 404, profiles |-> profiles, ucs |-> ucs]
  ELSE IF role /= Undefined /\ role \notin {SUPER_ADMIN, CUSTOMER}
  THEN [status |-> 400, profiles |-> profiles, ucs |-> ucs]
  ELSE
    LET existingProfile == profiles[userId]
        p1 == IF role /= Undefined
              THEN [profiles EXCEPT ![userId].role = role]
              ELSE profiles
        uc1 == {x \in ucs : x[1] /= userId}
    IN IF companyIds = NotGiven
       THEN [status |-> 200, profiles |-> p1, ucs |-> ucs]
       ELSE IF Len(companyIds) > 0
       THEN IF AssignmentInsertFails(companyIds)
            THEN [status |-> 500, profiles |-> p1, ucs |-> uc1]
            ELSE LET newActiveCompanyId ==
                       IF Includes(companyIds, existingProfile.active_company_id)
                       THEN existingProfile.active_company_id
                       ELSE companyIds[1]
                 IN [status |-> 200,
                     profiles |-> [p1 EXCEPT ![userId].active_company_id =
                                                newActiveCompanyId],
                     ucs |-> uc1 \cup {<<userId, companyIds[i]>> :
                                         i \in 1..Len(companyIds)}]
       ELSE [status |-> 200,
             profiles |-> [p1 EXCEPT ![userId].active_company_id = NULL],
             ucs |-> uc1]

RoleInputs == {Undefined, SUPER_ADMIN, CUSTOMER, "manager"}
CompanyIdsInputs ==
  {<<>>, <<GhostCompany>>} \cup {<<c>> : c \in CompanyIds}

\* the id the auth service gives the user an admin creates
NewUser == "newuser"

\* POST /api/admin/users with body {email, password, fullName, role, companyIds}
CreateUser(profiles, ucs, role, companyIds) ==
  LET unchanged(code) == [status |-> code, profiles |-> profiles, ucs |-> ucs]
      assigned == role = CUSTOMER /\ companyIds /= NotGiven /\ Len(companyIds) > 0
      activeCompanyId == IF assigned THEN companyIds[1] ELSE NULL
  IN IF ~Truthy(role) THEN unchanged(400)
     ELSE IF role \notin {SUPER_ADMIN, CUSTOMER} THEN unchanged(400)
     ELSE IF role = CUSTOMER /\ ~assigned THEN unchanged(400)
     ELSE IF NewUser \in DOMAIN profiles THEN unchanged(400)
     ELSE IF activeCompanyId /= NULL /\ activeCompanyId \notin companies
     THEN unchanged(500)
     ELSE IF assigned /\ AssignmentInsertFails(companyIds) THEN unchanged(500)
     ELSE [status |-> 201,
           profiles |-> (NewUser :> Profile(role, activeCompanyId, NULL)) @@ profiles,
           ucs |-> IF assigned
                   THEN ucs \cup {<<NewUser, companyIds[i]>> : i \in 1..Len(companyIds)}
                   ELSE ucs]

PostAdminUser(caller, role, companyIds) ==
  LET gate == AdminGate(caller)
      r == CreateUser(user_profiles, user_companies, role, companyIds)
  IN /\ IF gate /= 0
        THEN /\ Writes(user_profiles, user_companies)
             /\ resp' = Answer("post-user", caller, NewUser, gate, NoCtx, NoBody)
        ELSE /\ Writes(r.profiles, r.ucs)
             /\ resp' = Answer("post-user", caller, NewUser, r.status, NoCtx, NoBody)
     /\ otherResp' = resp'
     /\ UNCHANGED <<mappingTables, psaTables, upstream, syncState, cacheState>>

\* DELETE /api/admin/companies/:companyId; 0 when the company is deleted.
\* user_profiles.active_company_id references companies(id) without ON DELETE,
\* so the delete fails while a profile points at the company.
DeleteCompanyStatus(caller, companyId) ==
  LET gate == AdminGate(caller)
  IN IF gate /= 0 THEN gate
     ELSE IF companyId \notin companies THEN 404
     ELSE IF \E x \in user_companies : x[2] = companyId THEN 400
     ELSE IF \E u \in DOMAIN user_profiles :
               user_profiles[u].active_company_id = companyId THEN 500
     ELSE 0

DeleteCompany(caller, companyId) ==
  LET status == DeleteCompanyStatus(caller, companyId)
      kept(table) == IF status = 0 THEN {x \in table : x[1] /= companyId} ELSE table
  IN /\ status = 0 => nOps < MaxOps
     /\ nOps' = IF status = 0 THEN nOps + 1 ELSE nOps
     /\ companies' = IF status = 0 THEN companies \ {companyId} ELSE companies
     /\ company_halopsa_clients' = kept(company_halopsa_clients)
     /\ company_ninjaone_orgs' = kept(company_ninjaone_orgs)
     /\ company_domain_assignments' = kept(company_domain_assignments)
     /\ company_20i_stackcp_users' = kept(company_20i_stackcp_users)
     /\ resp' = Answer("delete-company", caller, companyId,
                       IF status = 0 THEN 200 ELSE status, NoCtx, NoBody)
     /\ otherResp' = resp'
     /\ UNCHANGED <<tenantTables, psaTables, upstream, syncState, cacheState>>

PutAdminUser(caller, userId, role, companyIds) ==
  LET gate == AdminGate(caller)
      r == UpdateUser(user_profiles, user_companies, userId, role, companyIds)
  IN /\ IF gate /= 0
        THEN /\ Writes(user_profiles, user_companies)
             /\ resp' = Answer("put-user", caller, userId, gate, NoCtx, NoBody)
        ELSE /\ Writes(r.profiles, r.ucs)
             /\ resp' = Answer("put-user", caller, userId, r.status, NoCtx, NoBody)
     /\ otherResp' = resp'
     /\ UNCHANGED <<mappingTables, psaTables, upstream, syncState, cacheState>>

\* auth.admin.deleteUser(userId): user_profiles.user_id and
\* user_companies.user_id cascade; user_profiles.impersonating_user_id
\* references auth.users(id) without ON DELETE, so the delete fails while
\* another profile impersonates the user
DeleteUser(profiles, ucs, userId) ==
  IF userId \notin DOMAIN profiles
  THEN [status |-> 404, profiles |-> profiles, ucs |-> ucs]
  ELSE IF \E u \in DOMAIN profiles \ {userId} :
            profiles[u].impersonating_user_id = userId
  THEN [status |-> 500, profiles |-> profiles, ucs |-> ucs]
  ELSE [status |-> 200,
        profiles |-> [u \in DOMAIN profiles \ {userId} |-> profiles[u]],
        ucs |-> {x \in ucs : x[1] /= userId}]

\* DELETE /api/admin/users/:userId
DeleteAdminUser(caller, userId) ==
  LET gate == AdminGate(caller)
      r == DeleteUser(user_profiles, user_companies, userId)
  IN /\ IF gate /= 0
        THEN /\ Writes(user_profiles, user_companies)
             /\ resp' = Answer("delete-user", caller, userId, gate, NoCtx, NoBody)
        ELSE /\ Writes(r.profiles, r.ucs)
             /\ resp' = Answer("delete-user", caller, userId, r.status, NoCtx, NoBody)
     /\ otherResp' = resp'
     /\ UNCHANGED <<mappingTables, psaTables, upstream, syncState, cacheState>>

----------------------------------------------------------------------------
(* Request parameters are strings: sequences of one-character strings *)

DigitChars == {"0", "1", "2", "3", "4", "5", "6", "7", "8", "9"}
DigitVal(c) ==
  CASE c = "0" -> 0 [] c = "1" -> 1 [] c = "2" -> 2 [] c = "3" -> 3
    [] c = "4" -> 4 [] c = "5" -> 5 [] c = "6" -> 6 [] c = "7" -> 7
    [] c = "8" -> 8 [] c = "9" -> 9
IsSpace(c) == c = " "

RECURSIVE StripLeft(_)
StripLeft(s) == IF Len(s) > 0 /\ IsSpace(Head(s)) THEN StripLeft(Tail(s)) ELSE s

RECURSIVE StripRight(_)
StripRight(s) ==
  IF Len(s) > 0 /\ IsSpace(s[Len(s)]) THEN StripRight(SubSeq(s, 1, Len(s) - 1)) ELSE s

\* the longest prefix of decimal digits
RECURSIVE DigitPrefix(_)
DigitPrefix(s) ==
  IF Len(s) > 0 /\ Head(s) \in DigitChars
  THEN <<Head(s)>> \o DigitPrefix(Tail(s))
  ELSE <<>>

RECURSIVE DigitsValue(_)
DigitsValue(ds) ==
  IF Len(ds) = 0 THEN 0
  ELSE 10 * DigitsValue(SubSeq(ds, 1, Len(ds) - 1)) + DigitVal(ds[Len(ds)])

HexLetters == {"a", "b", "c", "d", "e", "f", "A", "B", "C", "D", "E", "F"}
HexVal(c) ==
  CASE c \in DigitChars -> DigitVal(c)
    [] c \in {"a", "A"} -> 10 [] c \in {"b", "B"} -> 11 [] c \in {"c", "C"} -> 12
    [] c \in {"d", "D"} -> 13 [] c \in {"e", "E"} -> 14 [] c \in {"f", "F"} -> 15

RECURSIVE HexPrefix(_)
HexPrefix(s) ==
  IF Len(s) > 0 /\ Head(s) \in DigitChars \cup HexLetters
  THEN <<Head(s)>> \o HexPrefix(Tail(s))
  ELSE <<>>

RECURSIVE HexValue(_)
HexValue(hs) ==
  IF Len(hs) = 0 THEN 0
  ELSE 16 * HexValue(SubSeq(hs, 1, Len(hs) - 1)) + HexVal(hs[Len(hs)])

Signed(s) == Len(s) > 0 /\ Head(s) \in {"-", "+"}
Unsigned(s) == IF Signed(s) THEN Tail(s) ELSE s
SignOf(s) == IF Len(s) > 0 /\ Head(s) = "-" THEN 0 - 1 ELSE 1

\* JavaScript parseInt(string): leading white space, a sign, then the longest
\* run of digits; whatever follows is ignored; NaN when there is no digit
ParseInt(str) ==
  LET s == StripLeft(str)
      u == Unsigned(s)
      hex == Len(u) >= 2 /\ u[1] = "0" /\ u[2] \in {"x", "X"}
      ds == DigitPrefix(u)
      hs == HexPrefix(SubSeq(u, 3, Len(u)))
  IN IF hex
     THEN IF Len(hs) = 0 THEN [nan |-> TRUE, val |-> 0]
          ELSE [nan |-> FALSE, val |-> SignOf(s) * HexValue(hs)]
     ELSE IF Len(ds) = 0 THEN [nan |-> TRUE, val |-> 0]
          ELSE [nan |-> FALSE, val |-> SignOf(s) * DigitsValue(ds)]

\* digits with single underscores between them (PostgreSQL 16 and later)
RECURSIVE SeparatedDigits(_, _)
SeparatedDigits(s, digits) ==
  /\ Len(s) > 0
  /\ Head(s) \in digits
  /\ \/ Len(s) = 1
     \/ SeparatedDigits(Tail(s), digits)
     \/ Len(s) > 2 /\ s[2] = "_" /\ SeparatedDigits(SubSeq(s, 3, Len(s)), digits)

WithoutSeparators(s) == SelectSeq(s, LAMBDA c : c /= "_")

\* the INTEGER column's input conversion of a filter value (.eq('client_id', v)):
\* surrounding white space, a sign and decimal digits, otherwise the query
\* fails. The store's PostgreSQL release is not fixed by the repository: from
\* release 16 on (modernInput) the conversion also takes underscores between
\* digits and the prefix 0x.
ColumnInteger(str, modernInput) ==
  LET s == StripRight(StripLeft(str))
      body == Unsigned(s)
      hex == Len(body) > 2 /\ body[1] = "0" /\ body[2] \in {"x", "X"}
      hexBody == SubSeq(body, 3, Len(body))
  IN IF Len(body) > 0 /\ DigitPrefix(body) = body
     THEN [error |-> FALSE, val |-> SignOf(s) * DigitsValue(body)]
     ELSE IF modernInput /\ SeparatedDigits(body, DigitChars)
     THEN [error |-> FALSE, val |-> SignOf(s) * DigitsValue(WithoutSeparators(body))]
     ELSE IF modernInput /\ hex /\ SeparatedDigits(hexBody, DigitChars \cup HexLetters)
     THEN [error |-> FALSE, val |-> SignOf(s) * HexValue(WithoutSeparators(hexBody))]
     ELSE [error |-> TRUE, val |-> 0]

----------------------------------------------------------------------------
(* Ticket statistics: server-supabase.js *)

\* from('tickets').eq('client_id', clientId).gte('date_occurred', startDate)
\*   .lte('date_occurred', endDate)
TicketsOfClientBetween(tks, clientId, startDate, endDate, modernInput) ==
  LET n == ColumnInteger(clientId, modernInput)
  IN [error |-> n.error,
      rows |-> IF n.error THEN {}
               ELSE {t \in tks : /\ t.client_id = n.val
                                 /\ t.date_occurred >= startDate
                                 /\ t.date_occurred <= endDate}]

\* "Verify user has access to this client": 0 when access is granted
ClientAccessDenied(ctx, clientId) ==
  IF ctx.isSuperAdmin THEN 0
  ELSE IF ~Truthy(ctx.activeCompanyId) THEN 403
  ELSE LET n == ParseInt(clientId)
       IN IF n.nan \/ n.val \notin AllowedClientIds(ctx.activeCompanyId)
          THEN 403 ELSE 0

TicketStats(rows) ==
  [totalTickets |-> Cardinality(rows),
   closedTickets |-> Cardinality({t \in rows : t.is_closed}),
   openTickets |-> Cardinality(rows) - Cardinality({t \in rows : t.is_closed}),
   tickets |-> {t.id : t \in rows}]

NoStats == [totalTickets |-> 0, closedTickets |-> 0, openTickets |-> 0, tickets |-> {}]

\* GET /api/tickets/stats?clientId&startDate&endDate
GetTicketStats(caller, clientId, startDate, endDate, modernInput) ==
  LET r == InjectCompanyContext(user_profiles, caller)
      denied == ClientAccessDenied(r.ctx, clientId)
      q == TicketsOfClientBetween(tickets, clientId, startDate, endDate, modernInput)
      status == IF r.status /= 0 THEN r.status
                ELSE IF Len(clientId) = 0 THEN 400
                ELSE IF denied /= 0 THEN denied
                ELSE IF q.error THEN 500 ELSE 200
  IN /\ resp' = Answer("ticket-stats", caller,
                       [clientId |-> clientId, modernInput |-> modernInput,
                        months |-> <<[startDate |-> startDate, endDate |-> endDate]>>],
                       status, r.ctx,
                       IF status = 200 THEN <<TicketStats(q.rows)>> ELSE <<>>)
     /\ otherResp' = resp'
     /\ UNCHANGED <<tenantTables, mappingTables, psaTables, upstream, syncState, cacheState, nOps>>

\* POST /api/tickets/monthly-stats with body {clientId, months}
PostMonthlyStats(caller, clientId, months, modernInput) ==
  LET r == InjectCompanyContext(user_profiles, caller)
      denied == ClientAccessDenied(r.ctx, clientId)
      q(i) == TicketsOfClientBetween(tickets, clientId, months[i].startDate,
                                     months[i].endDate, modernInput)
      status == IF r.status /= 0 THEN r.status
                ELSE IF Len(clientId) = 0 THEN 400
                ELSE IF denied /= 0 THEN denied
                ELSE IF \E i \in 1..Len(months) : q(i).error THEN 500 ELSE 200
  IN /\ resp' = Answer("monthly-stats", caller,
                       [clientId |-> clientId, modernInput |-> modernInput,
                        months |-> months],
                       status, r.ctx,
                       IF status = 200
                       THEN [i \in 1..Len(months) |->
                               [TicketStats(q(i).rows) EXCEPT !.tickets = {}]]
                       ELSE <<>>)
     /\ otherResp' = resp'
     /\ UNCHANGED <<tenantTables, mappingTables, psaTables, upstream, syncState, cacheState, nOps>>

----------------------------------------------------------------------------
(* Dashboard statistics: GET /api/dashboard/stats *)

RecentDays == 30
WeekDays == 7
TrendDays == 365
TopClientsLimit == 10

Count(S) == Cardinality(S)

\* a score that JavaScript takes as true: neither null nor 0
ScoreTruthy(score) == score /= NoScore /\ score /= 0

\* (satisfied / total * 100).toFixed(1), in tenths of a percent
ToFixed1(satisfied, total) == (2 * 1000 * satisfied + total) \div (2 * total)

ZeroSatisfaction ==
  [satisfied |-> 0, dissatisfied |-> 0, total |-> 0,
   satisfactionRate |-> [fixed |-> FALSE, tenths |-> 0]]

\* variant: the feedback rows are not narrowed to the caller's tickets
SatisfactionUnscoped(fbs, allTickets, unrestricted) ==
  IF fbs = {} THEN ZeroSatisfaction
  ELSE LET satisfied == Count({f \in fbs : f.score = 1})
           dissatisfied == Count({f \in fbs : f.score = 2})
           total == Count({f \in fbs : ScoreTruthy(f.score)})
       IN [satisfied |-> satisfied, dissatisfied |-> dissatisfied, total |-> total,
           satisfactionRate |->
             IF total > 0 THEN [fixed |-> TRUE, tenths |-> ToFixed1(satisfied, total)]
             ELSE [fixed |-> FALSE, tenths |-> 0]]

\* the satisfaction block over the feedback table
Satisfaction(fbs, allTickets, unrestricted) ==
  IF fbs = {} THEN ZeroSatisfaction
  ELSE LET allowedTicketIds == {t.id : t \in allTickets}
           filteredFeedback ==
             IF unrestricted THEN fbs
             ELSE {f \in fbs : f.ticket_id \in allowedTicketIds}
           satisfied == Count({f \in filteredFeedback : f.score = 1})
           dissatisfied == Count({f \in filteredFeedback : f.score = 2})
           total == Count({f \in filteredFeedback : ScoreTruthy(f.score)})
       IN [satisfied |-> satisfied, dissatisfied |-> dissatisfied, total |-> total,
           satisfactionRate |->
             IF total > 0 THEN [fixed |-> TRUE, tenths |-> ToFixed1(satisfied, total)]
             ELSE [fixed |-> FALSE, tenths |-> 0]]

\* Object.entries(clientTicketCounts).sort((a, b) => b[1] - a[1]): integer keys
\* come in ascending order and the sort is stable
RECURSIVE SortByCountDesc(_, _)
SortByCountDesc(ids, count) ==
  IF ids = {} THEN <<>>
  ELSE LET first == CHOOSE c \in ids :
                      \A d \in ids : \/ count[c] > count[d]
                                     \/ count[c] = count[d] /\ c <= d
       IN <<first>> \o SortByCountDesc(ids \ {first}, count)

Slice(seq, n) == SubSeq(seq, 1, IF Len(seq) < n THEN Len(seq) ELSE n)

TopClients(tks, allTickets) ==
  LET ids == {t.client_id : t \in {x \in allTickets : x.client_id /= 0}}
      clientTicketCounts == [c \in ids |-> Count({t \in allTickets : t.client_id = c})]
      topClientIds == Slice(SortByCountDesc(ids, clientTicketCounts), TopClientsLimit)
      named == {c \in ActiveClients(tks) : Includes(topClientIds, c.id)}
  IN [i \in 1..Len(topClientIds) |->
        LET clientId == topClientIds[i]
        IN [id |-> clientId,
            name |-> IF \E c \in named : c.id = clientId
                     THEN (CHOOSE c \in named : c.id = clientId).name
                     ELSE <<"Client", clientId>>,
            totalTickets |-> clientTicketCounts[clientId],
            openTickets |-> Count({t \in allTickets :
                                     t.client_id = clientId /\ ~t.is_closed}),
            closedTickets |-> Count({t \in allTickets :
                                       t.client_id = clientId /\ t.is_closed})]]

DailyTrend(yearTicketsDetailed) ==
  [k \in 1..TrendDays |->
     LET day == DayOf(Now - Days(TrendDays - k))
         openedCount == Count({t \in yearTicketsDetailed : DayOf(t.date_occurred) = day})
         closedCount == Count({t \in yearTicketsDetailed :
                                 t.date_closed /= NoDate /\ DayOf(t.date_closed) = day})
     IN [date |-> day, count |-> openedCount, opened |-> openedCount,
         closed |-> closedCount]]

EmptyDashboard ==
  [totalTickets |-> 0, openTickets |-> 0, closedTickets |-> 0,
   recentStats |-> [total |-> 0, open |-> 0, closed |-> 0],
   weekStats |-> [total |-> 0],
   topClients |-> <<>>, dailyTrend |-> <<>>, satisfaction |-> ZeroSatisfaction]

\* the response body computed from the tables tks and fbs
DashboardStats(tks, fbs, ctx, feedbackError) ==
  LET unrestricted == ctx.isSuperAdmin
      allowedClientIds == AllowedClientIds(ctx.activeCompanyId)
      scoped(rows) == IF unrestricted THEN rows
                      ELSE {t \in rows : t.client_id \in allowedClientIds}
      allTickets == scoped(tks)
      recentTickets == scoped({t \in tks : t.date_occurred >= Now - Days(RecentDays)})
      weekTickets == scoped({t \in tks : t.date_occurred >= Now - Days(WeekDays)})
      yearTicketsDetailed ==
        scoped({t \in tks : t.date_occurred >= Now - Days(TrendDays)})
  IN IF ~unrestricted /\ allowedClientIds = {} THEN EmptyDashboard
     ELSE [totalTickets |-> Count(allTickets),
           openTickets |-> Count({t \in allTickets : ~t.is_closed}),
           closedTickets |-> Count({t \in allTickets : t.is_closed}),
           recentStats |-> [total |-> Count(recentTickets),
                            open |-> Count({t \in recentTickets : ~t.is_closed}),
                            closed |-> Count({t \in recentTickets : t.is_closed})],
           weekStats |-> [total |-> Count(weekTickets)],
           topClients |-> TopClients(tks, allTickets),
           dailyTrend |-> DailyTrend(yearTicketsDetailed),
           satisfaction |-> IF feedbackError THEN ZeroSatisfaction
                            ELSE Satisfaction(fbs, allTickets, unrestricted)]

\* GET /api/dashboard/stats, answered from both stores; feedbackError is the
\* failure of the feedback query, which the handler survives
GetDashboardStats(caller, feedbackError) ==
  LET r == InjectCompanyContext(user_profiles, caller)
      status == IF r.status /= 0 THEN r.status
                ELSE IF ~r.ctx.isSuperAdmin /\ ~Truthy(r.ctx.activeCompanyId) THEN 403
                ELSE 200
  IN /\ resp' = Answer("dashboard", caller, feedbackError, status, r.ctx,
                       IF status = 200 THEN DashboardStats(tickets, feedback, r.ctx, feedbackError)
                       ELSE EmptyDashboard)
     /\ otherResp' = Answer("dashboard", caller, feedbackError, status, r.ctx,
                            IF status = 200
                            THEN DashboardStats(otherTickets, otherFeedback, r.ctx,
                                                feedbackError)
                            ELSE EmptyDashboard)
     /\ UNCHANGED <<tenantTables, mappingTables, psaTables, upstream, syncState, cacheState, nOps>>

----------------------------------------------------------------------------
(* Monitoring data: GET /api/servers, /api/workstations and their details.   *)
(* ninjaDevices is what NinjaOne serves under /v2/devices, each device with  *)
(* the counts its patch queries give. Lists are modelled as sets.            *)

Device(id, organizationId, nodeClass, offline, osPending, softwarePending) ==
  [id |-> id, organizationId |-> organizationId, nodeClass |-> nodeClass,
   offline |-> offline, osPending |-> osPending, softwarePending |-> softwarePending]

\* nodeClass.toLowerCase().includes('server')
IsServerClass(nodeClass) == nodeClass \in {"WINDOWS_SERVER", "LINUX_SERVER"}

\* the record the client makes of a device: it carries the organisation's
\* name and no organizationId
NormalisedDevice(device) ==
  [id |-> device.id,
   clientName |-> <<"org", device.organizationId>>,
   status |-> IF device.offline = FALSE THEN "ONLINE" ELSE "OFFLINE",
   patches |-> [osPending |-> device.osPending,
                softwarePending |-> device.softwarePending]]

DeviceSummary(list) ==
  [total |-> Count(list),
   online |-> Count({d \in list : d.status = "ONLINE"}),
   offline |-> Count({d \in list : d.status = "OFFLINE"}),
   needingPatches |-> Count({d \in list : \/ d.patches.osPending > 0
                                          \/ d.patches.softwarePending > 0})]

DeviceData(list) == [summary |-> DeviceSummary(list), items |-> list]

\* ninjaOneClient.getServers()
GetServersData(devices) ==
  DeviceData({NormalisedDevice(d) : d \in {x \in devices : IsServerClass(x.nodeClass)}})

\* ninjaOneClient.getWorkstations(): the devices that are not servers, each
\* keeping the organizationId the route reads
GetWorkstationsData(devices) ==
  DeviceData({[id |-> d.id,
               organizationId |-> d.organizationId,
               clientName |-> <<"org", d.organizationId>>,
               status |-> IF d.offline = FALSE THEN "ONLINE" ELSE "OFFLINE",
               patches |-> [osPending |-> d.osPending,
                            softwarePending |-> d.softwarePending]]
                : d \in {x \in devices : ~IsServerClass(x.nodeClass)}})

AllowedOrgIds(companyId) ==
  {m[2] : m \in {x \in company_ninjaone_orgs : x[1] = companyId}}

\* the value of item.organizationId, if the record has that property
OrganizationIdOf(item) ==
  IF "organizationId" \in DOMAIN item THEN {item.organizationId} ELSE {}

\* variant: an empty mapping keeps nothing
FilterByOrgStrict(list, allowedOrgIds) ==
  {d \in list : \E o \in OrganizationIdOf(d) : o \in allowedOrgIds}

\* allowedOrgIds.length === 0 || allowedOrgIds.includes(item.organizationId)
FilterByOrg(list, allowedOrgIds) ==
  {d \in list : \/ allowedOrgIds = {}
                \/ \E o \in OrganizationIdOf(d) : o \in allowedOrgIds}

\* the body a device list route answers with
DeviceListBody(data, ctx) ==
  IF ctx.isSuperAdmin THEN data
  ELSE IF Truthy(ctx.activeCompanyId)
       THEN DeviceData(FilterByOrg(data.items, AllowedOrgIds(ctx.activeCompanyId)))
       ELSE DeviceData({})

DeviceList(op, data, caller, upstreamError) ==
  LET r == InjectCompanyContext(user_profiles, caller)
      status == IF r.status /= 0 THEN r.status
                ELSE IF upstreamError THEN 500
                ELSE 200
  IN /\ resp' = Answer(op, caller, upstreamError, status, r.ctx,
                       IF status = 200 THEN DeviceListBody(data, r.ctx)
                       ELSE DeviceData({}))
     /\ UNCHANGED <<tenantTables, mappingTables, psaTables, upstream, syncState, cacheState, nOps, otherResp>>

\* GET /api/servers
GetServers(caller, upstreamError) ==
  DeviceList("servers", GetServersData(ninjaDevices), caller, upstreamError)

\* GET /api/workstations
GetWorkstations(caller, upstreamError) ==
  DeviceList("workstations", GetWorkstationsData(ninjaDevices), caller, upstreamError)

\* ninjaOneClient.getServerDetails(deviceId): /v2/device/<id>, which fails for
\* an id NinjaOne does not know
DeviceKnown(devices, deviceId) == \E d \in devices : d.id = deviceId

GetServerDetailsData(devices, deviceId) ==
  NormalisedDevice(CHOOSE d \in devices : d.id = deviceId)

DeviceDetails(op, caller, deviceId) ==
  LET status == IF DeviceKnown(ninjaDevices, deviceId) THEN 200 ELSE 500
  IN /\ resp' = Answer(op, caller, deviceId, status, NoCtx,
                       IF status = 200
                       THEN GetServerDetailsData(ninjaDevices, deviceId)
                       ELSE NoBody)
     /\ UNCHANGED <<tenantTables, mappingTables, psaTables, upstream, syncState, cacheState, nOps, otherResp>>

\* GET /api/servers/:deviceId
GetServerDetails(caller, deviceId) == DeviceDetails("server-details", caller, deviceId)

\* GET /api/workstations/:deviceId
GetWorkstationDetails(caller, deviceId) ==
  DeviceDetails("workstation-details", caller, deviceId)

----------------------------------------------------------------------------
(* Hosting data: GET /api/domains. twentyiDomains is the domain list the 20i *)
(* client returns. Names are sequences of characters.                        *)

UpperChars == <<"A", "B", "C", "D", "E", "L", "O", "S">>
LowerChars == <<"a", "b", "c", "d", "e", "l", "o", "s">>

LowerChar(c) ==
  IF \E i \in 1..Len(UpperChars) : UpperChars[i] = c
  THEN LowerChars[CHOOSE i \in 1..Len(UpperChars) : UpperChars[i] = c]
  ELSE c

ToLowerCase(name) == [i \in 1..Len(name) |-> LowerChar(name[i])]

Domain(name, hasHosting, status) ==
  [name |-> name, hasHosting |-> hasHosting, status |-> status]

DomainSummary(list) ==
  [totalDomains |-> Count(list),
   domainsWithHosting |-> Count({d \in list : d.hasHosting}),
   domainsExpiringSoon |-> Count({d \in list : d.status \in {"expiring-soon", "expired"}})]

DomainData(list) == [summary |-> DomainSummary(list), items |-> list]

AssignedDomains(companyId) ==
  {m[2] : m \in {x \in company_domain_assignments : x[1] = companyId}}

\* variant: the filter of the device routes, which lets everything through an
\* empty set
DomainListBodyOpenWhenEmpty(data, ctx) ==
  IF ctx.isSuperAdmin THEN data
  ELSE LET allowedDomains == {ToLowerCase(a) : a \in AssignedDomains(ctx.activeCompanyId)}
       IN DomainData({d \in data.items : \/ allowedDomains = {}
                                         \/ ToLowerCase(d.name) \in allowedDomains})

\* the body the domains router answers with
DomainListBody(data, ctx) ==
  IF ctx.isSuperAdmin THEN data
  ELSE LET allowedDomains == {ToLowerCase(a) : a \in AssignedDomains(ctx.activeCompanyId)}
       IN IF allowedDomains = {} THEN DomainData({})
          ELSE DomainData({d \in data.items : ToLowerCase(d.name) \in allowedDomains})

\* GET /api/domains through the domains router
GetDomains(caller, upstreamError) ==
  LET r == InjectCompanyContext(user_profiles, caller)
      status == IF r.status /= 0 THEN r.status
                ELSE IF upstreamError THEN 500
                ELSE IF ~r.ctx.isSuperAdmin /\ ~Truthy(r.ctx.activeCompanyId) THEN 403
                ELSE 200
  IN /\ resp' = Answer("domains", caller, upstreamError, status, r.ctx,
                       IF status = 200 THEN DomainListBody(DomainData(twentyiDomains), r.ctx)
                       ELSE DomainData({}))
     /\ UNCHANGED <<tenantTables, mappingTables, psaTables, upstream, syncState, cacheState, nOps, otherResp>>

----------------------------------------------------------------------------
(* Domain assignment administration: routes/domain-assignments.js. A row of *)
(* company_domain_assignments is <<company_id, domain_name>>; domain_name    *)
(* is UNIQUE, compared character by character.                               *)

Assignment(domainName, companyId) ==
  [domain_name |-> domainName, company_id |-> companyId]

\* !assignment.domain_name || !assignment.company_id
AssignmentIncomplete(a) == Len(a.domain_name) = 0 \/ ~Truthy(a.company_id)

\* the upsert statement fails on a company that does not exist (foreign key)
\* and on a domain_name proposed twice by the same statement
UpsertFails(assignments) ==
  \/ \E i \in 1..Len(assignments) : assignments[i].company_id \notin companies
  \/ \E i, j \in 1..Len(assignments) :
       i /= j /\ assignments[i].domain_name = assignments[j].domain_name

\* upsert(assignments, { onConflict: 'domain_name' })
UpsertAssignments(table, assignments) ==
  LET names == {assignments[i].domain_name : i \in 1..Len(assignments)}
  IN {x \in table : x[2] \notin names}
       \cup {<<assignments[i].company_id, assignments[i].domain_name>> :
               i \in 1..Len(assignments)}

\* POST /api/admin/domain-assignments
PostDomainAssignments(caller, assignments) ==
  LET gate == AdminGate(caller)
      status == IF gate /= 0 THEN gate
                ELSE IF Len(assignments) = 0 THEN 400
                ELSE IF \E i \in 1..Len(assignments) : AssignmentIncomplete(assignments[i])
                     THEN 400
                ELSE IF UpsertFails(assignments) THEN 500
                ELSE 200
  IN /\ company_domain_assignments' =
          IF status = 200 THEN UpsertAssignments(company_domain_assignments, assignments)
          ELSE company_domain_assignments
     /\ resp' = Answer("post-domain-assignments", caller, assignments, status, NoCtx, NoBody)
     /\ otherResp' = resp'
     /\ UNCHANGED <<tenantTables, companies, company_halopsa_clients, company_ninjaone_orgs,
                    company_20i_stackcp_users, psaTables, upstream, syncState, cacheState, nOps>>

\* DELETE /api/admin/domain-assignments/:domainName
DeleteDomainAssignment(caller, domainName) ==
  LET gate == AdminGate(caller)
  IN /\ company_domain_assignments' =
          IF gate = 0 THEN {x \in company_domain_assignments : x[2] /= domainName}
          ELSE company_domain_assignments
     /\ resp' = Answer("delete-domain-assignment", caller, domainName,
                       IF gate = 0 THEN 200 ELSE gate, NoCtx, NoBody)
     /\ otherResp' = resp'
     /\ UNCHANGED <<tenantTables, companies, company_halopsa_clients, company_ninjaone_orgs,
                    company_20i_stackcp_users, psaTables, upstream, syncState, cacheState, nOps>>

\* DELETE /api/admin/domain-assignments/company/:companyId
DeleteCompanyDomainAssignments(caller, companyId) ==
  LET gate == AdminGate(caller)
  IN /\ company_domain_assignments' =
          IF gate = 0 THEN {x \in company_domain_assignments : x[1] /= companyId}
          ELSE company_domain_assignments
     /\ resp' = Answer("delete-company-domain-assignments", caller, companyId,
                       IF gate = 0 THEN 200 ELSE gate, NoCtx, NoBody)
     /\ otherResp' = resp'
     /\ UNCHANGED <<tenantTables, companies, company_halopsa_clients, company_ninjaone_orgs,
                    company_20i_stackcp_users, psaTables, upstream, syncState, cacheState, nOps>>

----------------------------------------------------------------------------
(* PSA synchronisation: sync-service.js. halo is what the upstream holds:    *)
(* halo.clients and halo.tickets are endpoints that report a record_count,   *)
(* halo.feedback is the array the Feedback endpoint pages through.           *)

\* page_size: 100, scaled down
PageSize == 2
\* batchSize = 1000, scaled down
BatchSize == 2
\* synchronisation runs started in one behaviour
MaxRuns == 2

Min(a, b) == IF a <= b THEN a ELSE b
Max(a, b) == IF a >= b THEN a ELSE b

Endpoint(items, recordCount) == [items |-> items, record_count |-> recordCount]

\* what an upstream that honours page_size and page_no returns for a page
PageOf(items, pageNo) ==
  SubSeq(items, (pageNo - 1) * PageSize + 1, Min(pageNo * PageSize, Len(items)))

\* the fault injected into a step: kind is "none", "token" (the token request
\* fails), "page" (page request number `at` fails), "lookup" (the select of
\* ticket ids fails) or "upsert" (upsert statement number `at` fails)
Failure(kind, at) == [kind |-> kind, at |-> at]
NoFailure == Failure("none", 0)
FailingPage(fail) == IF fail.kind = "page" THEN fail.at ELSE 0
FailingBatch(fail) == IF fail.kind = "upsert" THEN fail.at ELSE 0

AuthErrorMessage == "Failed to authenticate with HaloPSA"
RequestErrorMessage == "Request failed with status code 500"
DatabaseErrorMessage == "database error"
NoError == "none"

\* getAccessToken(): cached is the module's accessToken, expired says whether
\* Date.now() < tokenExpiry is false, fails says whether the token request fails
GetAccessToken(cached, expired, fails) ==
  IF cached /= NULL /\ ~expired
  THEN [ok |-> TRUE, cache |-> cached, requested |-> FALSE]
  ELSE IF fails THEN [ok |-> FALSE, cache |-> cached, requested |-> TRUE]
  ELSE [ok |-> TRUE, cache |-> "token", requested |-> TRUE]

\* the while loop of fetchAllItems from page pageNo on; requests lists the
\* page numbers asked for
RECURSIVE FetchPages(_, _, _, _, _)
FetchPages(endpoint, failPage, pageNo, allItems, requests) ==
  IF pageNo = failPage
  THEN [items |-> <<>>, requests |-> Append(requests, pageNo), error |-> TRUE]
  ELSE LET items == PageOf(endpoint.items, pageNo)
           all == allItems \o items
       IN IF Len(all) >= endpoint.record_count \/ Len(items) = 0
          THEN [items |-> all, requests |-> Append(requests, pageNo), error |-> FALSE]
          ELSE FetchPages(endpoint, failPage, pageNo + 1, all, Append(requests, pageNo))

\* variant: the loop only stops on an empty page
RECURSIVE FetchPagesUntilEmpty(_, _, _, _, _)
FetchPagesUntilEmpty(endpoint, failPage, pageNo, allItems, requests) ==
  IF pageNo = failPage
  THEN [items |-> <<>>, requests |-> Append(requests, pageNo), error |-> TRUE]
  ELSE LET items == PageOf(endpoint.items, pageNo)
           all == allItems \o items
       IN IF Len(items) = 0
          THEN [items |-> all, requests |-> Append(requests, pageNo), error |-> FALSE]
          ELSE FetchPagesUntilEmpty(endpoint, failPage, pageNo + 1, all,
                                    Append(requests, pageNo))

FetchAllItemsUntilEmpty(endpoint, failPage) ==
  FetchPagesUntilEmpty(endpoint, failPage, 1, <<>>, <<>>)

\* variant: a failed page request counts as the last page
FetchAllItemsSwallowError(endpoint, failPage) ==
  LET r == FetchPages(endpoint, failPage, 1, <<>>, <<>>)
  IN IF r.error
     THEN [FetchPages(Endpoint(SubSeq(endpoint.items, 1, (failPage - 1) * PageSize),
                               (failPage - 1) * PageSize),
                      0, 1, <<>>, <<>>) EXCEPT !.requests = r.requests]
     ELSE r

\* fetchAllItems(token, endpoint, params); failPage = 0 when no request fails
FetchAllItems(endpoint, failPage) == FetchPages(endpoint, failPage, 1, <<>>, <<>>)

\* fetchAllTickets(token, params) of the direct-API server: the same loop
FetchAllTickets(endpoint, failPage) == FetchPages(endpoint, failPage, 1, <<>>, <<>>)

\* the while loop of syncFeedback: the endpoint answers with a bare array
RECURSIVE FetchFeedbackPages(_, _, _, _, _)
FetchFeedbackPages(array, failPage, pageNo, allFeedback, requests) ==
  IF pageNo = failPage
  THEN [items |-> <<>>, requests |-> Append(requests, pageNo), error |-> TRUE]
  ELSE LET items == PageOf(array, pageNo)
       IN IF Len(items) = 0
          THEN [items |-> allFeedback, requests |-> Append(requests, pageNo), error |-> FALSE]
          ELSE IF Len(items) < PageSize
          THEN [items |-> allFeedback \o items, requests |-> Append(requests, pageNo),
                error |-> FALSE]
          ELSE FetchFeedbackPages(array, failPage, pageNo + 1, allFeedback \o items,
                                  Append(requests, pageNo))

FetchAllFeedback(array, failPage) == FetchFeedbackPages(array, failPage, 1, <<>>, <<>>)

\* a string property the upstream object does not have
Absent == <<Undefined>>

\* truthiness of a string property
StringTruthy(str) == str /= Absent /\ Len(str) > 0

\* str.includes(sub)
StringIncludes(str, sub) ==
  \E i \in 0..(Len(str) - Len(sub)) : SubSeq(str, i + 1, i + Len(sub)) = sub

\* JavaScript values of the derived column: true, false, or undefined
JsTrue == "true"
JsFalse == "false"
JsOr(a, b) == IF a = JsTrue THEN a ELSE b

ClosedStatusId == 9
ClosedWord == <<"c", "l", "o", "s", "e", "d">>

\* x?.toLowerCase().includes('closed')
IncludesClosed(str) ==
  IF str = Absent THEN Undefined
  ELSE IF StringIncludes(ToLowerCase(str), ClosedWord) THEN JsTrue ELSE JsFalse

\* ticket.statusname || ticket.status
StatusName(ticket) ==
  IF StringTruthy(ticket.statusname) THEN ticket.statusname ELSE ticket.status

\* ticket.status_id === 9 || ticket.statusname?... || ticket.status?...
IsClosed(ticket) ==
  JsOr(IF ticket.status_id = ClosedStatusId THEN JsTrue ELSE JsFalse,
       JsOr(IncludesClosed(ticket.statusname), IncludesClosed(ticket.status)))

\* rows as the three steps transform them; now is the time of the step
TransformClient(client, now) ==
  [id |-> client.id, name |-> client.name, updated_at |-> now]

TransformTicket(ticket, now) ==
  [id |-> ticket.id, client_id |-> ticket.client_id, status_id |-> ticket.status_id,
   status_name |-> StatusName(ticket), date_occurred |-> ticket.dateoccurred,
   date_closed |-> ticket.dateclosed, is_closed |-> IsClosed(ticket), updated_at |-> now]

TransformFeedback(fb, now) ==
  [id |-> fb.id, ticket_id |-> fb.ticket_id, score |-> fb.score, updated_at |-> now]

\* columns a new row gets beside those the statement gives
NoDefaults == [id |-> 0]
ClientDefaults == [id |-> 0, last_ticket_date |-> NoDate]

Merged(old, new) ==
  [f \in DOMAIN old \cup DOMAIN new |-> IF f \in DOMAIN new THEN new[f] ELSE old[f]]

\* variant: a plain insert into a table without its primary key
InsertRows(table, rows, defaults) ==
  table \cup {Merged(defaults, rows[i]) : i \in 1..Len(rows)}

\* upsert(rows, { onConflict: 'id' }): a row with a known id replaces the
\* columns it gives, another row is inserted
Upsert(table, rows, defaults) ==
  {x \in table : \A i \in 1..Len(rows) : rows[i].id /= x.id}
    \cup {Merged(IF \E x \in table : x.id = rows[i].id
                 THEN CHOOSE x \in table : x.id = rows[i].id
                 ELSE defaults, rows[i]) : i \in 1..Len(rows)}

\* one statement cannot touch the same id twice
SameIdTwice(rows) == \E i, j \in 1..Len(rows) : i /= j /\ rows[i].id = rows[j].id

\* tickets.client_id REFERENCES clients(id)
UnknownClient(rows, clientRows) ==
  \E i \in 1..Len(rows) : \A c \in clientRows : c.id /= rows[i].client_id

\* feedback.ticket_id REFERENCES tickets(id)
UnknownTicket(rows, ticketRows) ==
  \E i \in 1..Len(rows) : \A t \in ticketRows : t.id /= rows[i].ticket_id

\* the batch loop of syncTickets from row i on; batch number batchNo
RECURSIVE UpsertBatches(_, _, _, _, _, _)
UpsertBatches(table, rows, i, batchNo, failBatch, clientRows) ==
  IF i > Len(rows) THEN [table |-> table, error |-> FALSE]
  ELSE LET batch == SubSeq(rows, i, Min(i + BatchSize - 1, Len(rows)))
       IN IF batchNo = failBatch \/ SameIdTwice(batch) \/ UnknownClient(batch, clientRows)
          THEN [table |-> table, error |-> TRUE]
          ELSE UpsertBatches(Upsert(table, batch, NoDefaults), rows, i + BatchSize,
                             batchNo + 1, failBatch, clientRows)

\* rpc update_client_last_ticket_dates
MaxOf(S) == CHOOSE m \in S : \A x \in S : x <= m
UpdateClientLastTicketDates(clientRows, ticketRows) ==
  {[c EXCEPT !.last_ticket_date =
      LET dates == {t.date_occurred : t \in {x \in ticketRows : x.client_id = c.id}}
      IN IF dates = {} THEN NoDate ELSE MaxOf(dates)] : c \in clientRows}

SyncMetadataRow(syncType, recordsSynced, status, errorMessage) ==
  [sync_type |-> syncType, records_synced |-> recordsSynced, status |-> status,
   error_message |-> errorMessage]

NotFetched == [items |-> <<>>, requests |-> <<>>, error |-> FALSE]

\* what a step leaves: the tables, the token cache, the sync_metadata rows it
\* appends, and how it ended ("success", "nothing": returned 0 early, "failed")
StepResult(cl, tk, fb, tok, meta, outcome, requests) ==
  [clients |-> cl, tickets |-> tk, feedback |-> fb, token |-> tok.cache,
   authFailed |-> ~tok.ok, meta |-> meta, outcome |-> outcome, requests |-> requests]

\* syncClients()
SyncClients(fail, expired, now) ==
  LET tok == GetAccessToken(accessToken, expired, fail.kind = "token")
      fetched == IF tok.ok THEN FetchAllItems(halo.clients, FailingPage(fail)) ELSE NotFetched
      transformedClients ==
        [i \in 1..Len(fetched.items) |-> TransformClient(fetched.items[i], now)]
      error == IF ~tok.ok THEN AuthErrorMessage
               ELSE IF fetched.error THEN RequestErrorMessage
               ELSE IF FailingBatch(fail) = 1 \/ SameIdTwice(transformedClients)
                    THEN DatabaseErrorMessage
               ELSE NoError
  IN IF error = NoError
     THEN StepResult(Upsert(clients, transformedClients, ClientDefaults), tickets, feedback,
                     tok,
                     <<SyncMetadataRow("clients", Len(transformedClients), "success", NULL)>>,
                     "success", fetched.requests)
     ELSE StepResult(clients, tickets, feedback, tok,
                     <<SyncMetadataRow("clients", 0, "failed", error)>>,
                     "failed", fetched.requests)

\* syncTickets(monthsBack); halo.tickets is what the upstream holds in the
\* requested window
SyncTickets(fail, expired, now) ==
  LET tok == GetAccessToken(accessToken, expired, fail.kind = "token")
      fetched == IF tok.ok THEN FetchAllItems(halo.tickets, FailingPage(fail)) ELSE NotFetched
      transformedTickets ==
        [i \in 1..Len(fetched.items) |-> TransformTicket(fetched.items[i], now)]
      written == IF tok.ok /\ ~fetched.error
                 THEN UpsertBatches(tickets, transformedTickets, 1, 1, FailingBatch(fail),
                                    clients)
                 ELSE [table |-> tickets, error |-> FALSE]
      error == IF ~tok.ok THEN AuthErrorMessage
               ELSE IF fetched.error THEN RequestErrorMessage
               ELSE IF written.error THEN DatabaseErrorMessage
               ELSE NoError
  IN IF error = NoError
     THEN StepResult(UpdateClientLastTicketDates(clients, written.table), written.table,
                     feedback, tok,
                     <<SyncMetadataRow("tickets", Len(transformedTickets), "success", NULL)>>,
                     "success", fetched.requests)
     ELSE StepResult(clients, written.table, feedback, tok,
                     <<SyncMetadataRow("tickets", 0, "failed", error)>>,
                     "failed", fetched.requests)

\* a feedback object without ticket_id
NoTicketId == 0

\* variant: no filter on the ticket of a feedback row
KeptFeedbackUnfiltered(items, ticketRows) == items

\* the filter of syncFeedback: feedback of tickets the tickets table has
KeptFeedback(items, ticketRows) ==
  LET existingTicketIds == {t.id : t \in ticketRows}
      Keep(f) == f.ticket_id /= NoTicketId /\ f.ticket_id \in existingTicketIds
  IN SelectSeq(items, Keep)

\* syncFeedback()
SyncFeedback(fail, expired, now) ==
  LET tok == GetAccessToken(accessToken, expired, fail.kind = "token")
      fetched == IF tok.ok THEN FetchAllFeedback(halo.feedback, FailingPage(fail))
                 ELSE NotFetched
      kept == KeptFeedback(fetched.items, tickets)
      transformedFeedback == [i \in 1..Len(kept) |-> TransformFeedback(kept[i], now)]
      error == IF ~tok.ok THEN AuthErrorMessage
               ELSE IF fetched.error THEN RequestErrorMessage
               ELSE IF Len(fetched.items) = 0 THEN NoError
               ELSE IF fail.kind = "lookup" THEN DatabaseErrorMessage
               ELSE IF Len(transformedFeedback) = 0 THEN NoError
               ELSE IF \/ FailingBatch(fail) = 1
                       \/ SameIdTwice(transformedFeedback)
                       \/ UnknownTicket(transformedFeedback, tickets)
                    THEN DatabaseErrorMessage
               ELSE NoError
  IN IF error /= NoError
     THEN StepResult(clients, tickets, feedback, tok,
                     <<SyncMetadataRow("feedback", 0, "failed", error)>>,
                     "failed", fetched.requests)
     ELSE IF Len(transformedFeedback) = 0
     THEN StepResult(clients, tickets, feedback, tok, <<>>, "nothing",
                     fetched.requests)
     ELSE StepResult(clients, tickets, Upsert(feedback, transformedFeedback, NoDefaults),
                     tok,
                     <<SyncMetadataRow("feedback", Len(transformedFeedback), "success", NULL)>>,
                     "success", fetched.requests)

\* performFullSync(monthsBack): the step after one that ended with outcome
PerformFullSync(step, outcome) ==
  IF outcome = "failed" THEN "failed"
  ELSE IF step = "clients" THEN "tickets"
  ELSE IF step = "tickets" THEN "feedback"
  ELSE "done"

----------------------------------------------------------------------------
(* The clients' caches. A token cache holds a token and the instant up to   *)
(* which it is handed out; a data cache holds a payload and the instant it  *)
(* was written. Time is in seconds. A nullable payload is a set: empty for  *)
(* null, else the set of the one payload.                                   *)

\* - 60000 ms in getAccessToken
PsaTokenMargin == 60
\* (expires_in - 300) in getNinjaOneToken
NinjaTokenMargin == 300
\* TTL: 5 * 60 * 1000 ms
CacheTtl == 300

\* calls of the clients' functions in one behaviour, one to a caller; the
\* callers are numbered in the order in which they begin
NumCallers == 2
\* steps of the clock in one behaviour
MaxTicks == 3
Callers == 1..NumCallers
TokenProviders == {"psa", "ninja"}
DataClients == {"hosting", "monitoring"}

TickSeconds == PsaTokenMargin
StartClock == 2 * NinjaTokenMargin
MaxClock == StartClock + MaxTicks * TickSeconds

\* a token as the provider issues it; serial 0 stands for null
Token(serial, issuedAt, expiresIn) ==
  [serial |-> serial, issuedAt |-> issuedAt, expiresIn |-> expiresIn]
NoToken == Token(0, 0, 0)
NoTokenCache == [token |-> NoToken, expiresAt |-> 0]

TokenMargin(provider) ==
  IF provider = "psa" THEN PsaTokenMargin ELSE NinjaTokenMargin

\* variant: the expiry kept without safety margin
TokenExpiryNoMargin(provider, t, expiresIn) == t + expiresIn

\* tokenExpiry = Date.now() + expires_in * 1000 - 60000;
\* tokenCache.expiresAt = Date.now() + (expires_in - 300) * 1000
TokenExpiry(provider, t, expiresIn) == t + expiresIn - TokenMargin(provider)

\* accessToken && tokenExpiry && Date.now() < tokenExpiry
TokenCacheValid(cache, t) ==
  /\ cache.token /= NoToken
  /\ cache.expiresAt /= 0
  /\ t < cache.expiresAt

\* variant: the payload is replaced, the timestamp of a filled cache is kept
CacheWriteKeepTimestamp(cache, payload, t) ==
  [data |-> {payload}, timestamp |-> IF cache.timestamp = 0 THEN t ELSE cache.timestamp]

\* dataCache.data = result; dataCache.timestamp = Date.now();
CacheWrite(cache, payload, t) == [data |-> {payload}, timestamp |-> t]

NoDataCache == [data |-> {}, timestamp |-> 0]

\* isCacheValid()
IsCacheValid(cache, t) ==
  /\ cache.data /= {}
  /\ cache.timestamp /= 0
  /\ (t - cache.timestamp) < CacheTtl

\* a call: where it stands, when it began, what it was answered and what it
\* returned
Call(pc, op, at, cached, answer, result) ==
  [pc |-> pc, op |-> op, at |-> at, cached |-> cached, answer |-> answer,
   result |-> result]
NoCall == Call("idle", "none", 0, FALSE, {}, {})

\* the modules as loaded: nothing cached, nobody calling
CachesCold ==
  /\ clock = StartClock
  /\ tokenCache = [p \in TokenProviders |-> NoTokenCache]
  /\ dataCache = [d \in DataClients |-> NoDataCache]
  /\ calls = [c \in Callers |-> NoCall]
  /\ upstreamCalls = [r \in TokenProviders \cup DataClients |-> 0]

\* no run has started
IdleRun ==
  [pc |-> "idle", runs |-> 0, tick |-> 0, attempted |-> <<>>,
   completed |-> 0,
   last |-> [step |-> "none", outcome |-> "none", requests |-> <<>>, fail |-> NoFailure,
             authFailed |-> FALSE]]

SyncIdle ==
  /\ halo = [clients |-> Endpoint(<<>>, 0), tickets |-> Endpoint(<<>>, 0), feedback |-> <<>>]
  /\ sync_metadata = <<>>
  /\ syncRun = IdleRun
  /\ accessToken = NULL
  /\ serverRunning = TRUE
  /\ CachesCold

\* a run started without .catch: its rejection reaches the process
RejectionUnhandled == FALSE

\* POST /api/sync attaches .catch to the promise of the run: the rejection of
\* a failed run is handled
RejectionHandled == TRUE

\* POST /api/sync: answers at once, the run goes on in the background
PostSync(caller) ==
  /\ serverRunning
  /\ syncRun.pc \in {"idle", "done", "failed"}
  /\ syncRun.runs < MaxRuns
  /\ syncRun' = [syncRun EXCEPT !.pc = "clients", !.runs = @ + 1, !.attempted = <<>>]
  /\ resp' = Answer("sync", caller, NULL, 200, NoCtx, NoBody)
  /\ otherResp' = resp'
  /\ UNCHANGED <<tenantTables, mappingTables, psaTables, upstream, sync_metadata,
                 accessToken, serverRunning, cacheState, nOps>>

\* one awaited step of the run
SyncStep(step, fail, r) ==
  /\ serverRunning
  /\ syncRun.pc = step
  /\ clients' = r.clients
  /\ tickets' = r.tickets
  /\ feedback' = r.feedback
  /\ accessToken' = r.token
  /\ sync_metadata' = sync_metadata \o r.meta
  /\ syncRun' = [syncRun EXCEPT !.pc = PerformFullSync(step, r.outcome),
                                !.tick = @ + 1,
                                !.attempted = Append(@, step),
                                !.completed =
                                   IF PerformFullSync(step, r.outcome) = "done"
                                   THEN @ + 1 ELSE @,
                                !.last = [step |-> step, outcome |-> r.outcome,
                                          requests |-> r.requests, fail |-> fail,
                                          authFailed |-> r.authFailed]]
  /\ serverRunning' = (r.outcome = "failed" => RejectionHandled)
  /\ UNCHANGED <<tenantTables, mappingTables, otherTickets, otherFeedback, upstream, cacheState,
                 nOps, resp, otherResp>>

SyncClientsStep(fail, expired) ==
  SyncStep("clients", fail, SyncClients(fail, expired, syncRun.tick + 1))

SyncTicketsStep(fail, expired) ==
  SyncStep("tickets", fail, SyncTickets(fail, expired, syncRun.tick + 1))

SyncFeedbackStep(fail, expired) ==
  SyncStep("feedback", fail, SyncFeedback(fail, expired, syncRun.tick + 1))

\* GET /api/sync/status: the newest rows of sync_metadata, newest first
StatusLimit == 10

Reverse(seq) == [i \in 1..Len(seq) |-> seq[Len(seq) + 1 - i]]

LatestSyncRows(rows) == Slice(Reverse(rows), StatusLimit)

GetSyncStatus(caller) ==
  /\ serverRunning
  /\ resp' = Answer("syncStatus", caller, NULL, 200, NoCtx, LatestSyncRows(sync_metadata))
  /\ otherResp' = resp'
  /\ UNCHANGED <<tenantTables, mappingTables, psaTables, upstream, syncState, cacheState, nOps>>

----------------------------------------------------------------------------
(* The monitoring and hosting clients when their credential cannot be had:   *)
(* getNinjaOneToken and get20iToken throw, inside ninjaRequest and           *)
(* twentyiRequest. The data caches are empty.                                *)

\* ninjaOneClient.getServers(): the /v2/devices request is not caught, so the
\* call throws with it
NinjaGetServers(devices, tokenFails) ==
  [threw |-> tokenFails,
   data |-> IF tokenFails THEN DeviceData({}) ELSE GetServersData(devices)]

\* twentyiClient.getDomains(): both requests are caught and count as empty
\* lists, the call returns
TwentyiGetDomains(list, tokenFails) ==
  [threw |-> FALSE,
   data |-> IF tokenFails THEN DomainData({}) ELSE DomainData(list)]

\* GET /api/servers, the client called with an empty cache
GetServersCold(caller, tokenFails) ==
  LET r == InjectCompanyContext(user_profiles, caller)
      client == NinjaGetServers(ninjaDevices, tokenFails)
      status == IF r.status /= 0 THEN r.status
                ELSE IF client.threw THEN 500
                ELSE 200
  IN /\ resp' = Answer("servers", caller, [tokenFails |-> tokenFails], status, r.ctx,
                       IF status = 200 THEN DeviceListBody(client.data, r.ctx)
                       ELSE DeviceData({}))
     /\ UNCHANGED <<tenantTables, mappingTables, psaTables, upstream, syncState, cacheState, nOps, otherResp>>

\* GET /api/domains through the domains router, the client called with an
\* empty cache
GetDomainsCold(caller, tokenFails) ==
  LET r == InjectCompanyContext(user_profiles, caller)
      client == TwentyiGetDomains(twentyiDomains, tokenFails)
      status == IF r.status /= 0 THEN r.status
                ELSE IF client.threw THEN 500
                ELSE IF ~r.ctx.isSuperAdmin /\ ~Truthy(r.ctx.activeCompanyId) THEN 403
                ELSE 200
  IN /\ resp' = Answer("domains", caller, [tokenFails |-> tokenFails], status, r.ctx,
                       IF status = 200 THEN DomainListBody(client.data, r.ctx)
                       ELSE DomainData({}))
     /\ UNCHANGED <<tenantTables, mappingTables, psaTables, upstream, syncState, cacheState, nOps, otherResp>>

----------------------------------------------------------------------------
(* Calls of the cached functions. Each call is a process: it tests the      *)
(* cache and either returns what is cached or asks the provider and, when   *)
(* the response is handled, writes the cache and returns. Other calls, the  *)
(* clock and the provider move in between.                                  *)

Outside == <<tenantTables, mappingTables, psaTables, syncState, nOps, resp, otherResp>>

\* caller c is the next to begin
Begins(c) ==
  /\ calls[c].pc = "idle"
  /\ \A b \in Callers : b < c => calls[b].pc /= "idle"

\* Date.now() moves on
Tick(seconds) ==
  /\ clock < MaxClock
  /\ clock' = clock + seconds
  /\ UNCHANGED <<tokenCache, dataCache, calls, upstreamCalls, upstream, Outside>>

\* the head of getAccessToken / getNinjaOneToken, up to the token request
TokenCall(c, provider, op) ==
  /\ Begins(c)
  /\ calls' = [calls EXCEPT ![c] =
                 IF TokenCacheValid(tokenCache[provider], clock)
                 THEN Call("returned", op, clock, TRUE, {}, {tokenCache[provider].token})
                 ELSE Call("waiting", op, clock, FALSE, {}, {})]
  /\ UNCHANGED <<clock, tokenCache, dataCache, upstreamCalls, upstream, Outside>>

\* the token request is answered and the answer handled, or it fails and the
\* function throws
TokenResponse(c, provider, op, expiresIn, fails) ==
  /\ calls[c].pc = "waiting"
  /\ calls[c].op = op
  /\ upstreamCalls' = [upstreamCalls EXCEPT ![provider] = @ + 1]
  /\ IF fails
     THEN /\ tokenCache' = tokenCache
          /\ calls' = [calls EXCEPT ![c] = Call("failed", op, calls[c].at, FALSE, {}, {})]
     ELSE LET token == Token(upstreamCalls[provider] + 1, clock, expiresIn)
          IN /\ tokenCache' = [tokenCache EXCEPT ![provider] =
                                 [token |-> token,
                                  expiresAt |-> TokenExpiry(provider, clock, expiresIn)]]
             /\ calls' = [calls EXCEPT ![c] =
                            Call("returned", op, calls[c].at, FALSE, {token}, {token})]
  /\ UNCHANGED <<clock, dataCache, upstream, Outside>>

\* getAccessToken() of the synchronisation service
GetAccessTokenCall(c) == TokenCall(c, "psa", "getAccessToken")
GetAccessTokenResponse(c, expiresIn, fails) ==
  TokenResponse(c, "psa", "getAccessToken", expiresIn, fails)

\* getNinjaOneToken() of the monitoring client
GetNinjaOneTokenCall(c) == TokenCall(c, "ninja", "getNinjaOneToken")
GetNinjaOneTokenResponse(c, expiresIn, fails) ==
  TokenResponse(c, "ninja", "getNinjaOneToken", expiresIn, fails)

\* the head of getDomains / getServers, up to the requests to the provider
DataCall(c, client, op) ==
  /\ Begins(c)
  /\ calls' = [calls EXCEPT ![c] =
                 IF IsCacheValid(dataCache[client], clock)
                 THEN Call("returned", op, clock, TRUE, {}, dataCache[client].data)
                 ELSE Call("waiting", op, clock, FALSE, {}, {})]
  /\ UNCHANGED <<clock, tokenCache, dataCache, upstreamCalls, upstream, Outside>>

\* the provider answers the requests of call c from what it holds
ProviderAnswers(c, client, op, payload) ==
  /\ calls[c].pc = "waiting"
  /\ calls[c].op = op
  /\ upstreamCalls' = [upstreamCalls EXCEPT ![client] = @ + 1]
  /\ calls' = [calls EXCEPT ![c] = Call("answered", op, calls[c].at, FALSE, {payload}, {})]
  /\ UNCHANGED <<clock, tokenCache, dataCache, upstream, Outside>>

\* the tail of getDomains / getServers: the result is built from the answers,
\* written to the cache and returned
DataResponse(c, client, op) ==
  /\ calls[c].pc = "answered"
  /\ calls[c].op = op
  /\ \E payload \in calls[c].answer :
       /\ dataCache' = [dataCache EXCEPT ![client] = CacheWrite(@, payload, clock)]
       /\ calls' = [calls EXCEPT ![c] =
                      Call("returned", op, calls[c].at, FALSE, {payload}, {payload})]
  /\ UNCHANGED <<clock, tokenCache, upstreamCalls, upstream, Outside>>

\* getDomains() of the hosting client
GetDomainsCall(c) == DataCall(c, "hosting", "getDomains")
GetDomainsAnswered(c) ==
  ProviderAnswers(c, "hosting", "getDomains", TwentyiGetDomains(twentyiDomains, FALSE).data)
GetDomainsResponse(c) == DataResponse(c, "hosting", "getDomains")

\* getServers() of the monitoring client
GetServersCall(c) == DataCall(c, "monitoring", "getServers")
GetServersAnswered(c) ==
  ProviderAnswers(c, "monitoring", "getServers", NinjaGetServers(ninjaDevices, FALSE).data)
GetServersResponse(c) == DataResponse(c, "monitoring", "getServers")

\* what the providers hold changes
UpstreamChanges(devices, domains) ==
  /\ <<devices, domains>> /= <<ninjaDevices, twentyiDomains>>
  /\ ninjaDevices' = devices
  /\ twentyiDomains' = domains
  /\ UNCHANGED <<halo, cacheState, Outside>>

----------------------------------------------------------------------------
(* Replacing a company's mappings: routes/admin-companies.js. The handler   *)
(* awaits the delete of the old rows and then the insert of the new ones;   *)
(* other requests are served in between.                                    *)

MappingTables == {"company_halopsa_clients", "company_ninjaone_orgs"}

MappingRows(table) ==
  IF table = "company_halopsa_clients" THEN company_halopsa_clients
  ELSE company_ninjaone_orgs

\* a request of caller to replace the rows of companyId by the rows to ids;
\* old are the ids the company was mapped to when the request arrived
Replacement(caller, companyId, ids, old) ==
  [caller |-> caller, companyId |-> companyId, ids |-> ids, old |-> old]

\* a body whose field is not an array
NotAnArray == {0 - 1}

\* the handler up to the answer of the delete; status 0 while the request is
\* not answered yet
ReplaceMappings(c, caller, table, op, companyId, ids) ==
  LET gate == AdminGate(caller)
      status == IF gate /= 0 THEN gate
                ELSE IF ids = NotAnArray THEN 400
                ELSE IF companyId \notin companies THEN 404
                ELSE 0
      rows == MappingRows(table)
      old == {x[2] : x \in {y \in rows : y[1] = companyId}}
      kept == IF status = 0 THEN {x \in rows : x[1] /= companyId} ELSE rows
  IN /\ status = 0 => Begins(c)
     /\ company_halopsa_clients' =
          IF table = "company_halopsa_clients" THEN kept ELSE company_halopsa_clients
     /\ company_ninjaone_orgs' =
          IF table = "company_ninjaone_orgs" THEN kept ELSE company_ninjaone_orgs
     /\ calls' = IF status /= 0 THEN calls
                 ELSE [calls EXCEPT ![c] =
                         Call(IF ids = {} THEN "returned" ELSE "inserting", op, clock,
                              FALSE, {Replacement(caller, companyId, ids, old)}, {})]
     /\ resp' = Answer(op, caller, companyId,
                       IF status /= 0 THEN status ELSE IF ids = {} THEN 200 ELSE 0,
                       NoCtx, NoBody)
     /\ otherResp' = resp'
     /\ UNCHANGED <<tenantTables, companies, company_domain_assignments,
                    company_20i_stackcp_users, psaTables, upstream, syncState,
                    clock, tokenCache, dataCache, upstreamCalls, nOps>>

\* the handler from the answer of the delete on: the insert of the new rows,
\* which fails when the company is gone (foreign key) or the database says so
InsertMappings(c, table, op, dbError) ==
  /\ calls[c].pc = "inserting"
  /\ calls[c].op = op
  /\ \E r \in calls[c].answer :
       LET fails == dbError \/ r.companyId \notin companies
           rows == MappingRows(table)
           added == IF fails THEN rows ELSE rows \cup {<<r.companyId, i>> : i \in r.ids}
       IN /\ company_halopsa_clients' =
               IF table = "company_halopsa_clients" THEN added ELSE company_halopsa_clients
          /\ company_ninjaone_orgs' =
               IF table = "company_ninjaone_orgs" THEN added ELSE company_ninjaone_orgs
          /\ calls' = [calls EXCEPT ![c] =
                         Call(IF fails THEN "failed" ELSE "returned", op, calls[c].at,
                              FALSE, calls[c].answer, {})]
          /\ resp' = Answer(op, r.caller, r.companyId, IF fails THEN 500 ELSE 200,
                            NoCtx, NoBody)
  /\ otherResp' = resp'
  /\ UNCHANGED <<tenantTables, companies, company_domain_assignments,
                 company_20i_stackcp_users, psaTables, upstream, syncState,
                 clock, tokenCache, dataCache, upstreamCalls, nOps>>

\* POST /api/admin/companies/:companyId/halopsa-clients
PostHalopsaClients(c, caller, companyId, clientIds) ==
  ReplaceMappings(c, caller, "company_halopsa_clients", "post-halopsa-clients",
                  companyId, clientIds)
PostHalopsaClientsInsert(c, dbError) ==
  InsertMappings(c, "company_halopsa_clients", "post-halopsa-clients", dbError)

\* POST /api/admin/companies/:companyId/ninjaone-orgs
PostNinjaoneOrgs(c, caller, companyId, orgIds) ==
  ReplaceMappings(c, caller, "company_ninjaone_orgs", "post-ninjaone-orgs",
                  companyId, orgIds)
PostNinjaoneOrgsInsert(c, dbError) ==
  InsertMappings(c, "company_ninjaone_orgs", "post-ninjaone-orgs", dbError)

----------------------------------------------------------------------------
(* The other admin routes: lists, and companies created and updated *)

\* a GET route behind requireSuperAdmin that answers with rows of a table
AdminList(op, caller, body) ==
  LET gate == AdminGate(caller)
  IN /\ resp' = Answer(op, caller, NULL, IF gate = 0 THEN 200 ELSE gate, NoCtx,
                       IF gate = 0 THEN body ELSE NoBody)
     /\ otherResp' = resp'
     /\ UNCHANGED <<tenantTables, mappingTables, psaTables, upstream, syncState,
                    cacheState, nOps>>

\* GET /api/admin/users
GetAdminUsers(caller) == AdminList("get-users", caller, DOMAIN user_profiles)
\* GET /api/admin/companies
GetAdminCompanies(caller) == AdminList("get-companies", caller, companies)
\* GET /api/admin/companies/available-clients
GetAvailableClients(caller) == AdminList("get-available-clients", caller, {c.id : c \in clients})
\* GET /api/admin/domain-assignments
GetDomainAssignments(caller) ==
  AdminList("get-domain-assignments", caller, company_domain_assignments)

\* POST /api/admin/companies with body {name}; a company is known by its name
PostCompany(caller, name) ==
  LET gate == AdminGate(caller)
      status == IF gate /= 0 THEN gate
                ELSE IF ~Truthy(name) THEN 400
                ELSE IF name \in companies THEN 400
                ELSE 201
  IN /\ companies' = IF status = 201 THEN companies \cup {name} ELSE companies
     /\ resp' = Answer("post-company", caller, name, status, NoCtx, NoBody)
     /\ otherResp' = resp'
     /\ UNCHANGED <<tenantTables, company_halopsa_clients, company_ninjaone_orgs,
                    company_domain_assignments, company_20i_stackcp_users, psaTables,
                    upstream, syncState, cacheState, nOps>>

\* PUT /api/admin/companies/:companyId with a body that names no field: only
\* updated_at is written
PutCompany(caller, companyId) ==
  LET gate == AdminGate(caller)
      status == IF gate /= 0 THEN gate
                ELSE IF companyId \notin companies THEN 404
                ELSE 200
  IN /\ resp' = Answer("put-company", caller, companyId, status, NoCtx, NoBody)
     /\ otherResp' = resp'
     /\ UNCHANGED <<tenantTables, mappingTables, psaTables, upstream, syncState,
                    cacheState, nOps>>

----------------------------------------------------------------------------
(* Overlapping synchronisation runs: POST /api/sync starts performFullSync  *)
(* whatever else is running, and cron starts node sync-service.js; a run is *)
(* a call whose pc is the step it is about to take.                         *)

\* POST /api/sync, or sync-cron.sh when viaCron
StartRun(c, viaCron) ==
  /\ Begins(c)
  /\ calls' = [calls EXCEPT ![c] = Call("clients", "performFullSync", clock, viaCron, {}, {})]
  /\ resp' = IF viaCron THEN resp ELSE Answer("sync", Admin1, NULL, 200, NoCtx, NoBody)
  /\ otherResp' = resp'
  /\ UNCHANGED <<tenantTables, mappingTables, psaTables, upstream, syncState, clock,
                 tokenCache, dataCache, upstreamCalls, nOps>>

\* one awaited step of run c; the cron run is a process with a token of its own
RunStep(c, step, r) ==
  /\ calls[c].op = "performFullSync"
  /\ calls[c].pc = step
  /\ clients' = r.clients
  /\ tickets' = r.tickets
  /\ feedback' = r.feedback
  /\ accessToken' = IF calls[c].cached THEN accessToken ELSE r.token
  /\ sync_metadata' = sync_metadata \o r.meta
  /\ calls' = [calls EXCEPT ![c].pc = PerformFullSync(step, r.outcome)]
  /\ UNCHANGED <<tenantTables, mappingTables, otherTickets, otherFeedback, upstream,
                 syncRun, serverRunning, clock, tokenCache, dataCache, upstreamCalls,
                 nOps, resp, otherResp>>

RunClientsStep(c, fail) == RunStep(c, "clients", SyncClients(fail, TRUE, clock))
RunTicketsStep(c, fail) == RunStep(c, "tickets", SyncTickets(fail, TRUE, clock))
RunFeedbackStep(c, fail) == RunStep(c, "feedback", SyncFeedback(fail, TRUE, clock))

----------------------------------------------------------------------------
(* Fixtures: rows the tables can hold *)

NumTickets == 4
NumFeedback == 3

Ticket(id, clientId, isClosed, occurred, closed) ==
  [id |-> id, client_id |-> clientId, is_closed |-> isClosed,
   date_occurred |-> occurred, date_closed |-> closed]

TicketPool ==
  << Ticket(1, 5, FALSE, Now - Days(1), NoDate),
     Ticket(2, 7, TRUE, Now - Days(3), Now - Days(2)),
     Ticket(3, 5, TRUE, Now - Days(10) - 1, Now - Days(8)),
     Ticket(4, 57, FALSE, Now - Days(20), NoDate),
     Ticket(5, 9, FALSE, Now - Days(40), NoDate),
     Ticket(6, 7, TRUE, Now - Days(400), Now - Days(1)) >>

FeedbackRow(id, ticketId, score) == [id |-> id, ticket_id |-> ticketId, score |-> score]

FeedbackPool ==
  << FeedbackRow(1, 1, 1),
     FeedbackRow(2, 2, 1),
     FeedbackRow(3, 3, 2),
     FeedbackRow(4, 4, NoScore),
     FeedbackRow(5, 1, 2) >>

AllTickets == {TicketPool[i] : i \in 1..NumTickets}
AllFeedback == {FeedbackPool[i] : i \in 1..NumFeedback}

ClientRows == {[id |-> n, name |-> <<"client", n>>] : n \in {5, 7, 9, 57}}

\* company c1 is mapped to PSA clients 5 and 9, company c2 to client 7
HaloMappingFixture ==
  {<<CompanyNames[1], 5>>, <<CompanyNames[1], 9>>, <<CompanyNames[2], 7>>}

NoAnswer == Answer("none", NULL, NULL, 0, NoCtx, NoBody)

----------------------------------------------------------------------------
(* Specification of tenant resolution, impersonation and company switching *)

InitTenant ==
  /\ user_profiles = (Admin1 :> Profile(SUPER_ADMIN, NULL, NULL))
                     @@ (Admin2 :> Profile(SUPER_ADMIN, NULL, NULL))
                     @@ (Cust :> Profile(CUSTOMER, CompanyNames[1], NULL))
  /\ user_companies = {<<Cust, c>> : c \in CompanyIds}
  /\ companies = CompanyIds
  /\ company_halopsa_clients = HaloMappingFixture
  /\ company_ninjaone_orgs = {}
  /\ company_domain_assignments = {}
  /\ company_20i_stackcp_users = {}
  /\ clients = ClientRows
  /\ tickets = AllTickets
  /\ feedback = {f \in AllFeedback : \E t \in AllTickets : t.id = f.ticket_id}
  /\ otherTickets = tickets
  /\ otherFeedback = feedback
  /\ ninjaDevices = {}
  /\ SyncIdle
  /\ twentyiDomains = {}
  /\ nOps = 0
  /\ resp = NoAnswer
  /\ otherResp = NoAnswer

NextTenant ==
  \E caller \in AuthUsers :
    \/ \E c \in CompanyIds \cup {GhostCompany, ""} : PostSwitchCompany(caller, c)
    \/ \E t \in AuthUsers : PostImpersonate(caller, t)
    \/ PostStopImpersonation(caller)
    \/ \E u \in AuthUsers, role \in RoleInputs :
         PutAdminUser(caller, u, role, NotGiven)
    \/ GetClients(caller)
    \/ GetClientsLegacy(caller)

SpecTenant == InitTenant /\ [][NextTenant]_vars

----------------------------------------------------------------------------
(* Claims about tenant resolution, impersonation and company switching *)

IsTenantRequest == resp.op \in {"clients", "clients-legacy"}
HandlerInvoked == resp.ctx /= NoCtx

\* the profile the spec makes effective for a caller of the current middleware
EffectiveUserOf(u) ==
  IF Truthy(user_profiles[u].impersonating_user_id)
  THEN user_profiles[u].impersonating_user_id
  ELSE u

ClientsOfCompany(companyId) ==
  {c.id : c \in {x \in ActiveClients(tickets) : x.id \in AllowedClientIds(companyId)}}

\* C7: while super_admin A has impersonatingUserId = B (B a customer), a
\* tenant-scoped request made as A is resolved with isSuperAdmin = false,
\* isRealSuperAdmin = true and activeCompanyId = B's, and the data returned is
\* that of B's active company (a B without active company is refused).
C7_ImpersonationRoleFlip ==
  resp.op = "clients" /\ resp.user \in DOMAIN user_profiles =>
    LET a == user_profiles[resp.user]
        b == a.impersonating_user_id
    IN ( /\ a.role = SUPER_ADMIN
         /\ b /= NULL
         /\ b \in DOMAIN user_profiles
         /\ user_profiles[b].role = CUSTOMER )
       => IF user_profiles[b].active_company_id = NULL
          THEN resp.status = 403 /\ resp.body = NoBody
          ELSE /\ resp.status = 200
               /\ resp.ctx.isSuperAdmin = FALSE
               /\ resp.ctx.isRealSuperAdmin = TRUE
               /\ resp.ctx.activeCompanyId = user_profiles[b].active_company_id
               /\ resp.body = ClientsOfCompany(user_profiles[b].active_company_id)

C7_Witness ==
  /\ resp.op = "clients"
  /\ resp.user = Admin1
  /\ user_profiles[Admin1].role = SUPER_ADMIN
  /\ user_profiles[Admin1].impersonating_user_id = Cust
  /\ user_profiles[Cust].role = CUSTOMER
  /\ resp.status = 200
  /\ resp.body = ClientsOfCompany(CompanyNames[1])
  /\ resp.body /= {c.id : c \in ActiveClients(tickets)}

\* C8: the impersonated profile becomes effective only when the caller's own
\* role is super_admin; a caller whose own role is customer is resolved with
\* their own role and active company even if impersonatingUserId is non-null.
C8_CustomerResolvedAsSelf ==
  ( /\ resp.op = "clients"
    /\ resp.user \in DOMAIN user_profiles
    /\ user_profiles[resp.user].role = CUSTOMER )
  => /\ ~resp.ctx.isImpersonating
     /\ user_profiles[resp.user].active_company_id = NULL => resp.status = 403
     /\ resp.status = 200 =>
          resp.ctx.activeCompanyId = user_profiles[resp.user].active_company_id

\* C9: POST /profile/impersonate/:userId sets the caller's impersonatingUserId
\* to the target only if the caller's own role is super_admin and the target
\* profile exists with role customer; otherwise the request is rejected and no
\* profile row changes.
C9_ImpersonateOnlyAdminOnCustomer ==
  [][ resp'.op = "impersonate" =>
        LET c == resp'.user
            t == resp'.arg
            permitted == /\ c \in DOMAIN user_profiles
                         /\ user_profiles[c].role = SUPER_ADMIN
                         /\ t \in DOMAIN user_profiles
                         /\ user_profiles[t].role = CUSTOMER
        IN IF permitted
           THEN /\ resp'.status = 200
                /\ user_profiles' =
                     [user_profiles EXCEPT ![c].impersonating_user_id = t]
                /\ user_companies' = user_companies
           ELSE /\ resp'.status \in {403, 404}
                /\ user_profiles' = user_profiles
                /\ user_companies' = user_companies ]_vars

C9_Witness ==
  /\ resp.op = "impersonate"
  /\ resp.status = 200
  /\ resp.user \in DOMAIN user_profiles
  /\ user_profiles[resp.user].impersonating_user_id = resp.arg
  /\ user_profiles[resp.arg].role = CUSTOMER

\* C10: POST /profile/switch-company with company X changes the caller's
\* activeCompanyId to X if and only if a UserCompany row links the caller to
\* X; otherwise the request is rejected.
C10_SwitchIffMember ==
  resp.op = "switch-company" /\ resp.user \in DOMAIN user_profiles =>
    IF <<resp.user, resp.arg>> \in user_companies
    THEN /\ resp.status = 200
         /\ user_profiles[resp.user].active_company_id = resp.arg
    ELSE resp.status /= 200

----------------------------------------------------------------------------
(* Specification of the per-client ticket statistics *)

\* profile tables the profile and admin operations lead to
ProfileFixtures ==
  {   (Admin1 :> Profile(SUPER_ADMIN, NULL, NULL))
   @@ (Admin2 :> Profile(SUPER_ADMIN, NULL, Cust))
   @@ (Cust :> Profile(CUSTOMER, c, NULL)) : c \in CompanyIds }

ClientIdInputs ==
  { <<>>, <<"5">>, <<"7">>, <<"5", "x">>, <<"0", "x", "5">>, <<"5", "_", "7">> }

Range(startDate, endDate) == [startDate |-> startDate, endDate |-> endDate]
EverSince == Range(0, Days(DayOf(Now) + 1))
LastFiveDays == Range(Days(DayOf(Now) - 5), Days(DayOf(Now)))
RangeInputs == {EverSince, LastFiveDays}
MonthsInputs == {<<>>, <<LastFiveDays, EverSince>>}

InitTickets ==
  /\ user_profiles \in ProfileFixtures
  /\ user_companies = {<<Cust, c>> : c \in CompanyIds}
  /\ companies = CompanyIds
  /\ company_halopsa_clients = HaloMappingFixture
  /\ company_ninjaone_orgs = {}
  /\ company_domain_assignments = {}
  /\ company_20i_stackcp_users = {}
  /\ clients = ClientRows
  /\ tickets \in SUBSET AllTickets
  /\ feedback = {}
  /\ otherTickets = tickets
  /\ otherFeedback = feedback
  /\ ninjaDevices = {}
  /\ SyncIdle
  /\ twentyiDomains = {}
  /\ nOps = 0
  /\ resp = NoAnswer
  /\ otherResp = NoAnswer

NextTickets ==
  \E caller \in {Admin1, Admin2, Cust}, clientId \in ClientIdInputs,
     modernInput \in BOOLEAN :
    \/ \E r \in RangeInputs :
         GetTicketStats(caller, clientId, r.startDate, r.endDate, modernInput)
    \/ \E months \in MonthsInputs : PostMonthlyStats(caller, clientId, months, modernInput)

SpecTickets == InitTickets /\ [][NextTickets]_vars

\* the tickets of client n that fall into a date range
TicketsOf(n, range) ==
  {t \in tickets : /\ t.client_id = n
                   /\ t.date_occurred >= range.startDate
                   /\ t.date_occurred <= range.endDate}

\* C1: for a non-super-admin caller whose company maps to the client-ID set S,
\* ticket stats and monthly stats for a clientId not in S answer 403 without
\* ticket data; for a clientId in S every ticket counted or listed has
\* client_id equal to the requested clientId.
C1_TicketStatsTenantIsolation ==
  ( /\ resp.op \in {"ticket-stats", "monthly-stats"}
    /\ HandlerInvoked
    /\ ~resp.ctx.isSuperAdmin
    /\ Len(resp.arg.clientId) > 0 )
  => LET S == AllowedClientIds(resp.ctx.activeCompanyId)
         requested == ColumnInteger(resp.arg.clientId, resp.arg.modernInput)
         inS == ~requested.error /\ requested.val \in S
     IN /\ ~inS => resp.body = <<>>
        /\ ~requested.error /\ requested.val \notin S => resp.status = 403
        /\ inS =>
             /\ resp.status = 200
             /\ Len(resp.body) = Len(resp.arg.months)
             /\ \A i \in 1..Len(resp.body) :
                  LET mine == TicketsOf(requested.val, resp.arg.months[i])
                  IN /\ resp.body[i].totalTickets = Cardinality(mine)
                     /\ resp.body[i].closedTickets
                          = Cardinality({t \in mine : t.is_closed})
                     /\ resp.body[i].tickets \subseteq {t.id : t \in mine}

----------------------------------------------------------------------------
(* Specification of the dashboard over two stores: an arbitrary one, and the *)
(* one that holds only its rows of company c1. Stores that agree on the rows *)
(* of c1 have the same second store, so equal answers from the two stores    *)
(* of every state give equal answers from every such pair.                   *)

\* the rows a dashboard of company c is computed from
InScopeTickets(c) ==
  {t \in AllTickets : \E m \in HaloMappingFixture : m[1] = c /\ m[2] = t.client_id}
FeedbackOn(tks) == {f \in AllFeedback : \E t \in tks : t.id = f.ticket_id}

InitDashboard ==
  /\ user_profiles \in ProfileFixtures
  /\ user_companies = {<<Cust, c>> : c \in CompanyIds}
  /\ companies = CompanyIds
  /\ company_halopsa_clients = HaloMappingFixture
  /\ company_ninjaone_orgs = {}
  /\ company_domain_assignments = {}
  /\ company_20i_stackcp_users = {}
  /\ clients = ClientRows
  /\ \E mine \in SUBSET InScopeTickets(user_profiles[Cust].active_company_id) :
       \E others \in SUBSET (AllTickets \ InScopeTickets(user_profiles[Cust].active_company_id)) :
         /\ tickets = mine \cup others
         /\ otherTickets = mine
         /\ \E fm \in SUBSET FeedbackOn(mine), fo \in SUBSET FeedbackOn(others) :
              /\ feedback = fm \cup fo
              /\ otherFeedback = fm
  /\ ninjaDevices = {}
  /\ SyncIdle
  /\ twentyiDomains = {}
  /\ nOps = 0
  /\ resp = NoAnswer
  /\ otherResp = NoAnswer

NextDashboard ==
  \E caller \in AuthUsers, feedbackError \in BOOLEAN :
    GetDashboardStats(caller, feedbackError)

SpecDashboard == InitDashboard /\ [][NextDashboard]_vars

\* C3: for a non-super-admin caller the dashboard response depends only on the
\* tickets of the caller's company mapping and on the feedback of those
\* tickets: the store and its restriction to those rows give the same response.
C3_DashboardIgnoresOtherTenants ==
  (resp.op = "dashboard" /\ resp.status = 200 /\ ~resp.ctx.isSuperAdmin)
  => resp.body = otherResp.body

C3_Witness ==
  /\ resp.op = "dashboard"
  /\ resp.status = 200
  /\ ~resp.ctx.isSuperAdmin
  /\ tickets /= otherTickets
  /\ feedback /= otherFeedback
  /\ resp.body.totalTickets > 0
  /\ resp.body.satisfaction.total > 0
  /\ resp.body.totalTickets < Cardinality(tickets)
  /\ resp.body = otherResp.body

----------------------------------------------------------------------------
(* Specification of the monitoring routes *)

NumDevices == 3

DevicePool ==
  << Device(1, 11, "WINDOWS_SERVER", FALSE, 0, 0),
     Device(2, 12, "LINUX_SERVER", TRUE, 2, 0),
     Device(3, 11, "WINDOWS_WORKSTATION", FALSE, 0, 1),
     Device(4, 12, "MAC", FALSE, 0, 0),
     Device(5, 13, "WINDOWS_SERVER", FALSE, 1, 1) >>

AllDevices == {DevicePool[i] : i \in 1..NumDevices}
\* a device id NinjaOne does not know
UnknownDeviceId == Len(DevicePool) + 1
DeviceIdInputs == {d.id : d \in AllDevices} \cup {UnknownDeviceId}

\* company c1 is mapped to organisation 11, company c2 to organisation 12
OrgMappingFixture == {<<CompanyNames[1], 11>>, <<CompanyNames[2], 12>>}

InitMonitoring ==
  /\ user_profiles \in ProfileFixtures
  /\ user_companies = {<<Cust, c>> : c \in CompanyIds}
  /\ companies = CompanyIds
  /\ company_halopsa_clients = HaloMappingFixture
  /\ company_ninjaone_orgs \in SUBSET OrgMappingFixture
  /\ company_domain_assignments = {}
  /\ company_20i_stackcp_users = {}
  /\ clients = ClientRows
  /\ tickets = {}
  /\ feedback = {}
  /\ otherTickets = {}
  /\ otherFeedback = {}
  /\ ninjaDevices \in SUBSET AllDevices
  /\ SyncIdle
  /\ twentyiDomains = {}
  /\ nOps = 0
  /\ resp = NoAnswer
  /\ otherResp = NoAnswer

NextMonitoring ==
  \E caller \in {Admin1, Admin2, Cust} :
    \/ \E upstreamError \in BOOLEAN : GetServers(caller, upstreamError)
    \/ \E upstreamError \in BOOLEAN : GetWorkstations(caller, upstreamError)
    \/ \E deviceId \in DeviceIdInputs : GetServerDetails(caller, deviceId)
    \/ \E deviceId \in DeviceIdInputs : GetWorkstationDetails(caller, deviceId)

SpecMonitoring == InitMonitoring /\ [][NextMonitoring]_vars

\* the devices of the list a route serves whose organisation is in orgs
DevicesOfOrgs(op, orgs) ==
  {d.id : d \in {x \in ninjaDevices :
                   /\ x.organizationId \in orgs
                   /\ IsServerClass(x.nodeClass) <=> op = "servers"}}

\* C2: for a non-super-admin caller whose active company maps to the org set
\* O, GET /servers and GET /workstations return exactly the devices whose
\* organisation is in O, with the summary recomputed over them; with O empty
\* the list is empty.
C2_DeviceListIsTheMappedOrgs ==
  ( /\ resp.op \in {"servers", "workstations"}
    /\ resp.status = 200
    /\ ~resp.ctx.isSuperAdmin )
  => /\ {d.id : d \in resp.body.items}
          = DevicesOfOrgs(resp.op, AllowedOrgIds(resp.ctx.activeCompanyId))
     /\ resp.body.summary = DeviceSummary(resp.body.items)

\* C4: GET /servers/:deviceId and GET /workstations/:deviceId return device
\* details to a non-super-admin caller only if the device's organisation is
\* in the caller's company mapping set.
C4_DeviceDetailsTenantFiltered ==
  ( /\ resp.op \in {"server-details", "workstation-details"}
    /\ resp.status = 200
    /\ user_profiles[resp.user].role /= SUPER_ADMIN )
  => \A d \in ninjaDevices :
       d.id = resp.arg
         => d.organizationId
              \in AllowedOrgIds(user_profiles[resp.user].active_company_id)

----------------------------------------------------------------------------
(* Specification of the domains route *)

NumDomains == 2

DomainPool ==
  << Domain(<<"a", ".", "c">>, TRUE, "active"),
     Domain(<<"B", ".", "c">>, FALSE, "expired"),
     Domain(<<"c", ".", "c">>, TRUE, "expiring-soon") >>

AllDomains == {DomainPool[i] : i \in 1..NumDomains}

\* company c1 is assigned a.c (written A.c), company c2 is assigned b.c
DomainAssignmentFixture ==
  {<<CompanyNames[1], <<"A", ".", "c">>>>, <<CompanyNames[2], <<"b", ".", "c">>>>}

InitDomains ==
  /\ user_profiles \in ProfileFixtures
  /\ user_companies = {<<Cust, c>> : c \in CompanyIds}
  /\ companies = CompanyIds
  /\ company_halopsa_clients = HaloMappingFixture
  /\ company_ninjaone_orgs = {}
  /\ company_domain_assignments \in SUBSET DomainAssignmentFixture
  /\ company_20i_stackcp_users = {}
  /\ clients = ClientRows
  /\ tickets = {}
  /\ feedback = {}
  /\ otherTickets = {}
  /\ otherFeedback = {}
  /\ ninjaDevices = {}
  /\ SyncIdle
  /\ twentyiDomains \in SUBSET AllDomains
  /\ nOps = 0
  /\ resp = NoAnswer
  /\ otherResp = NoAnswer

NextDomains ==
  \E caller \in AuthUsers, upstreamError \in BOOLEAN : GetDomains(caller, upstreamError)

SpecDomains == InitDomains /\ [][NextDomains]_vars

\* the router ran for a non-super-admin whose company has no assignment row,
\* and the 20i client returned its list
ZeroAssignmentsCase ==
  /\ resp.op = "domains"
  /\ resp.arg = FALSE
  /\ HandlerInvoked
  /\ ~resp.ctx.isSuperAdmin
  /\ Truthy(resp.ctx.activeCompanyId)
  /\ AssignedDomains(resp.ctx.activeCompanyId) = {}

\* C6: a non-super-admin caller whose active company has zero domain
\* assignment rows receives from GET /domains a 200 response with all summary
\* counters 0 and an empty domains list, whatever the upstream list contains.
C6_ZeroAssignmentsEmptyList ==
  ZeroAssignmentsCase
  => /\ resp.status = 200
     /\ resp.body.items = {}
     /\ resp.body.summary
          = [totalDomains |-> 0, domainsWithHosting |-> 0, domainsExpiringSoon |-> 0]

C6_Witness ==
  /\ ZeroAssignmentsCase
  /\ twentyiDomains /= {}
  /\ company_domain_assignments /= {}
  /\ resp.status = 200
  /\ resp.body.items = {}

----------------------------------------------------------------------------
(* Specification of user administration, company deletion and switching *)

UserIdInputs == {Cust, NewUser}

AssignmentInputs ==
  CompanyIdsInputs \cup {NotGiven, <<CompanyNames[1], CompanyNames[2]>>}

NextAdmin ==
  \E caller \in {Admin1, Cust} :
    \/ \E u \in UserIdInputs, role \in RoleInputs, companyIds \in AssignmentInputs :
         PutAdminUser(caller, u, role, companyIds)
    \/ \E role \in RoleInputs, companyIds \in AssignmentInputs :
         PostAdminUser(caller, role, companyIds)
    \/ \E c \in CompanyIds \cup {GhostCompany} : DeleteCompany(caller, c)
    \/ \E c \in CompanyIds \cup {GhostCompany} : PostSwitchCompany(caller, c)

SpecAdmin == InitTenant /\ [][NextAdmin]_vars

\* C11: in every state reached through admin user create and update, company
\* delete and switch-company (error paths included), each user's
\* active_company_id is null or a company the user belongs to in
\* user_companies.
C11_ActiveCompanyIsMembership ==
  \A u \in DOMAIN user_profiles :
    \/ user_profiles[u].active_company_id = NULL
    \/ <<u, user_profiles[u].active_company_id>> \in user_companies

----------------------------------------------------------------------------
(* Specification of domain assignment administration *)

DomainNameInputs == {<<"a", ".", "c">>, <<"A", ".", "c">>, <<>>}

\* request bodies: no assignment, one assignment, two assignments of named
\* domains the first of which goes to the first company
AssignmentBodyInputs ==
  LET one == {Assignment(n, c) : n \in DomainNameInputs, c \in CompanyIds \cup {GhostCompany}}
      named == {a \in one : Len(a.domain_name) > 0 /\ a.company_id \in CompanyIds}
  IN {<<>>} \cup {<<a>> : a \in one}
       \cup {<<a, b>> : a \in {x \in named : x.company_id = CompanyNames[1]}, b \in named}

InitAssignments ==
  /\ user_profiles \in ProfileFixtures
  /\ user_companies = {<<Cust, c>> : c \in CompanyIds}
  /\ companies = CompanyIds
  /\ company_halopsa_clients = HaloMappingFixture
  /\ company_ninjaone_orgs = {}
  /\ company_domain_assignments = {}
  /\ company_20i_stackcp_users = {}
  /\ clients = ClientRows
  /\ tickets = {}
  /\ feedback = {}
  /\ otherTickets = {}
  /\ otherFeedback = {}
  /\ ninjaDevices = {}
  /\ SyncIdle
  /\ twentyiDomains \in SUBSET AllDomains
  /\ nOps = 0
  /\ resp = NoAnswer
  /\ otherResp = NoAnswer

NextAssignments ==
  \E caller \in {Admin1, Cust} :
    \/ \E assignments \in AssignmentBodyInputs : PostDomainAssignments(caller, assignments)
    \/ \E n \in DomainNameInputs : DeleteDomainAssignment(caller, n)
    \/ \E c \in CompanyIds : DeleteCompanyDomainAssignments(caller, c)
    \/ GetDomains(caller, FALSE)

SpecAssignments == InitAssignments /\ [][NextAssignments]_vars

\* the domains GET /api/domains shows to a customer whose active company is c
DomainsShownTo(c) ==
  DomainListBody(DomainData(twentyiDomains),
                 [NoCtx EXCEPT !.isSuperAdmin = FALSE, !.activeCompanyId = c]).items

\* C12: after any sequence of POST and DELETE operations on
\* /admin/domain-assignments each domain belongs to at most one company: no
\* domain name is held by two rows, and no domain returned by the upstream
\* provider passes the GET /domains tenant filter of two different companies.
C12_DomainInAtMostOneCompany ==
  /\ \A x, y \in company_domain_assignments : x[2] = y[2] => x[1] = y[1]
  /\ \A c, d \in CompanyIds : c /= d => DomainsShownTo(c) \cap DomainsShownTo(d) = {}

----------------------------------------------------------------------------
(* Specification of the synchronisation: runs follow one another, each step *)
(* of a run may meet a fault.                                                *)

NumHaloClients == 2
NumHaloTickets == 4
NumHaloFeedback == 3

HaloClient(id, name) == [id |-> id, name |-> name]

HaloTicket(id, clientId, statusId, statusname, status, occurred, closed) ==
  [id |-> id, client_id |-> clientId, status_id |-> statusId, statusname |-> statusname,
   status |-> status, dateoccurred |-> occurred, dateclosed |-> closed]

HaloFeedback(id, ticketId, score) == [id |-> id, ticket_id |-> ticketId, score |-> score]

Closed == <<"C", "l", "o", "s", "e", "d">>
Open == <<"O", "p", "e", "n">>

HaloClientPool == <<HaloClient(5, "five"), HaloClient(7, "seven"), HaloClient(9, "nine")>>

HaloTicketPool ==
  << HaloTicket(1, 5, ClosedStatusId, Closed, Absent, Now - Days(3), Now - Days(1)),
     HaloTicket(2, 5, 1, Open, Absent, Now - Days(2), NoDate),
     HaloTicket(3, 7, 1, Absent, Closed, Now - Days(2), Now - Days(1)),
     HaloTicket(4, 7, 1, Open, Closed, Now - Days(1), NoDate),
     HaloTicket(5, 9, 21, <<>>, Open, Now - Days(1), NoDate) >>

HaloFeedbackPool ==
  << HaloFeedback(1, 1, 1),
     HaloFeedback(2, 8, 2),
     HaloFeedback(3, NoTicketId, 1),
     HaloFeedback(4, 6, 2) >>

\* a ticket of an earlier window, no longer served by the upstream, and its
\* client: rows an earlier synchronisation left
OldTicket ==
  TransformTicket(HaloTicket(8, 5, ClosedStatusId, Closed, Absent, Now - Days(400),
                             Now - Days(399)), 0)
OldClient == Merged(ClientDefaults, TransformClient(HaloClient(5, "five"), 0))

FailureInputs ==
  {NoFailure, Failure("token", 0), Failure("page", 1), Failure("page", 2),
   Failure("lookup", 0), Failure("upsert", 1), Failure("upsert", 2)}

InitSync ==
  /\ user_profiles \in {p \in ProfileFixtures : p[Cust].active_company_id = CompanyNames[1]}
  /\ user_companies = {<<Cust, c>> : c \in CompanyIds}
  /\ companies = CompanyIds
  /\ company_halopsa_clients = HaloMappingFixture
  /\ company_ninjaone_orgs = {}
  /\ company_domain_assignments = {}
  /\ company_20i_stackcp_users = {}
  /\ clients = {OldClient}
  /\ tickets = {OldTicket}
  /\ feedback = {}
  /\ otherTickets = {}
  /\ otherFeedback = {}
  /\ ninjaDevices = {}
  /\ twentyiDomains = {}
  /\ \E nc \in 0..NumHaloClients, nt \in 0..NumHaloTickets, nf \in 0..NumHaloFeedback :
       halo = [clients |-> Endpoint(SubSeq(HaloClientPool, 1, nc), nc),
               tickets |-> Endpoint(SubSeq(HaloTicketPool, 1, nt), nt),
               feedback |-> SubSeq(HaloFeedbackPool, 1, nf)]
  /\ sync_metadata = <<>>
  /\ syncRun = IdleRun
  /\ accessToken = NULL
  /\ serverRunning = TRUE
  /\ CachesCold
  /\ nOps = 0
  /\ resp = NoAnswer
  /\ otherResp = NoAnswer

NextSync ==
  \/ \E caller \in {Admin1} : PostSync(caller)
  \/ \E fail \in FailureInputs, expired \in BOOLEAN : SyncClientsStep(fail, expired)
  \/ \E fail \in FailureInputs, expired \in BOOLEAN : SyncTicketsStep(fail, expired)
  \/ \E fail \in FailureInputs, expired \in BOOLEAN : SyncFeedbackStep(fail, expired)

SpecSync == InitSync /\ [][NextSync]_vars

\* a step of the run was taken
StepTaken == syncRun'.tick /= syncRun.tick

\* C13: in every run of performFullSync all three steps (clients, tickets,
\* feedback) are attempted in that order; a failure of one step does not
\* prevent the later steps from running.
C13_AllStepsAttempted ==
  syncRun.pc \in {"done", "failed"}
    => syncRun.attempted = <<"clients", "tickets", "feedback">>

\* C14: every invocation of syncClients, syncTickets and syncFeedback appends
\* exactly one sync_metadata row of its own sync type, whatever the outcome,
\* and no sync_metadata row is ever updated or deleted.
C14_OneMetadataRowPerInvocation ==
  [][ /\ Len(sync_metadata') >= Len(sync_metadata)
      /\ \A i \in 1..Len(sync_metadata) : sync_metadata'[i] = sync_metadata[i]
      /\ StepTaken =>
           /\ Len(sync_metadata') = Len(sync_metadata) + 1
           /\ sync_metadata'[Len(sync_metadata')].sync_type = syncRun'.last.step
    ]_vars

\* the step just taken asked for the page whose request fails
PageFailed ==
  /\ StepTaken
  /\ syncRun'.last.fail.kind = "page"
  /\ Includes(syncRun'.last.requests, syncRun'.last.fail.at)

\* C15: if a page request fails during a step's pagination, the loop issues no
\* further page request, the step writes no client, ticket or feedback row,
\* exactly one sync_metadata row with status failed and the error message is
\* appended, and the server process keeps running.
C15_PageFailureAbortsStep ==
  [][ PageFailed =>
        /\ syncRun'.last.requests = [i \in 1..syncRun'.last.fail.at |-> i]
        /\ clients' = clients
        /\ tickets' = tickets
        /\ feedback' = feedback
        /\ sync_metadata' = Append(sync_metadata,
                                   SyncMetadataRow(syncRun'.last.step, 0, "failed",
                                                   RequestErrorMessage))
        /\ serverRunning'
    ]_vars

C15_Witness ==
  /\ syncRun.last.step = "tickets"
  /\ syncRun.last.fail = Failure("page", 2)
  /\ syncRun.last.requests = <<1, 2>>
  /\ syncRun.pc = "failed"
  /\ tickets = {OldTicket}
  /\ Len(sync_metadata) = 2
  /\ sync_metadata[2] = SyncMetadataRow("tickets", 0, "failed", RequestErrorMessage)
  /\ serverRunning

\* rows written at time now
WrittenAt(table, now) == {x \in table : x.updated_at = now}

\* C16: syncFeedback upserts exactly the fetched feedback rows whose ticket_id
\* is the id of a ticket row present at the time of the lookup and drops the
\* others without raising an error; every feedback row it stores has its
\* ticket row at insert time.
C16_FeedbackOfLocalTicketsOnly ==
  [][ ( /\ StepTaken
        /\ syncRun'.last.step = "feedback"
        /\ syncRun'.last.fail = NoFailure )
      => LET fetched == SeqToSet(halo.feedback)
             expected == {f \in fetched : \E t \in tickets : t.id = f.ticket_id}
         IN /\ syncRun'.last.outcome /= "failed"
            /\ {[id |-> x.id, ticket_id |-> x.ticket_id, score |-> x.score] :
                  x \in WrittenAt(feedback', syncRun'.tick)} = expected
            /\ \A x \in feedback' \ WrittenAt(feedback', syncRun'.tick) : x \in feedback
            /\ \A x \in WrittenAt(feedback', syncRun'.tick) :
                 \E t \in tickets' : t.id = x.ticket_id
    ]_vars

\* feedback of a local ticket was stored, feedback of an unknown ticket and
\* feedback without ticket were dropped
C16_Witness ==
  /\ syncRun.last.step = "feedback"
  /\ syncRun.last.fail = NoFailure
  /\ syncRun.last.outcome = "success"
  /\ Len(halo.feedback) = 3
  /\ {x.id : x \in feedback} = {2}
  /\ {t.id : t \in tickets} = {OldTicket.id}

\* the rows of a table without their updated_at
Content(table) == {[f \in DOMAIN x \ {"updated_at"} |-> x[f]] : x \in table}

NoKeyTwice(table) == \A x, y \in table : x.id = y.id => x = y

\* C17: running performFullSync again against the unchanged upstream, after a
\* run that completed, leaves the clients, tickets and feedback tables with
\* the same rows and field values other than updated_at; no key is duplicated.
C17_SecondSyncChangesNothing ==
  [][ (StepTaken /\ syncRun.completed >= 1)
      => /\ Content(clients') = Content(clients)
         /\ Content(tickets') = Content(tickets)
         /\ Content(feedback') = Content(feedback)
         /\ NoKeyTwice(clients') /\ NoKeyTwice(tickets') /\ NoKeyTwice(feedback')
    ]_vars

C17_Witness ==
  /\ syncRun.completed = 2
  /\ syncRun.pc = "done"
  /\ Cardinality(clients) = 2
  /\ Cardinality(tickets) = NumHaloTickets + 1
  /\ feedback /= {}
  /\ \A t \in tickets \ {OldTicket} : t.updated_at > 3

\* C19: for every ticket row written by syncTickets, is_closed is true exactly
\* when the stored status_id is 9 or the stored status_name contains "closed"
\* whatever the case of its letters, and is false otherwise.
C19_IsClosedFromStoredStatus ==
  \A t \in tickets :
    LET closed == \/ t.status_id = ClosedStatusId
                  \/ /\ t.status_name /= Absent
                     /\ StringIncludes(ToLowerCase(t.status_name), ClosedWord)
    IN t.is_closed = IF closed THEN JsTrue ELSE JsFalse

----------------------------------------------------------------------------
(* Specification of the pagination loop: the upstream holds any number of   *)
(* records and reports any record_count.                                    *)

MaxRecords == 4

CeilDiv(n, p) == (n + p - 1) \div p

\* a call of fetchAllItems on one of the two paginated endpoints
FetchAllItemsCall(endpointName, failPage) ==
  /\ resp' = Answer("fetchAllItems", NULL, [endpoint |-> endpointName, failPage |-> failPage],
                    0, NoCtx, FetchAllItems(halo[endpointName], failPage))
  /\ UNCHANGED <<tenantTables, mappingTables, psaTables, upstream, syncState, cacheState, nOps, otherResp>>

\* a call of fetchAllTickets by the direct-API server
FetchAllTicketsCall(failPage) ==
  /\ resp' = Answer("fetchAllTickets", NULL, [endpoint |-> "tickets", failPage |-> failPage],
                    0, NoCtx, FetchAllTickets(halo.tickets, failPage))
  /\ UNCHANGED <<tenantTables, mappingTables, psaTables, upstream, syncState, cacheState, nOps, otherResp>>

InitFetch ==
  /\ user_profiles \in {p \in ProfileFixtures : p[Cust].active_company_id = CompanyNames[1]}
  /\ user_companies = {<<Cust, c>> : c \in CompanyIds}
  /\ companies = CompanyIds
  /\ company_halopsa_clients = HaloMappingFixture
  /\ company_ninjaone_orgs = {}
  /\ company_domain_assignments = {}
  /\ company_20i_stackcp_users = {}
  /\ clients = {}
  /\ tickets = {}
  /\ feedback = {}
  /\ otherTickets = {}
  /\ otherFeedback = {}
  /\ ninjaDevices = {}
  /\ twentyiDomains = {}
  /\ \E held \in 0..MaxRecords, reported \in 0..MaxRecords :
       halo = [clients |-> Endpoint([i \in 1..held |-> HaloClient(i, "client")], reported),
               tickets |-> Endpoint([i \in 1..held |->
                                       HaloTicket(i, 5, 1, Open, Absent, Now, NoDate)],
                                    reported),
               feedback |-> <<>>]
  /\ sync_metadata = <<>>
  /\ syncRun = IdleRun
  /\ accessToken = NULL
  /\ serverRunning = TRUE
  /\ CachesCold
  /\ nOps = 0
  /\ resp = NoAnswer
  /\ otherResp = NoAnswer

NextFetch ==
  \E failPage \in 0..CeilDiv(MaxRecords, PageSize) :
    \/ \E endpointName \in {"clients", "tickets"} : FetchAllItemsCall(endpointName, failPage)
    \/ FetchAllTicketsCall(failPage)

SpecFetch == InitFetch /\ [][NextFetch]_vars

\* the last call met no failing request
FetchedWithoutFailure ==
  /\ resp.op \in {"fetchAllItems", "fetchAllTickets"}
  /\ ~Includes(resp.body.requests, resp.arg.failPage)

\* the first page the upstream answers with no record
FirstEmptyPage(held) == CeilDiv(held, PageSize) + 1

\* the claim as stated: ceil(N / P) requests
C18_PageRequestsCeiling ==
  FetchedWithoutFailure =>
    LET e == halo[resp.arg.endpoint]
        N == e.record_count
    IN /\ ~resp.body.error
       /\ Len(e.items) = N =>
            /\ resp.body.requests = [i \in 1..CeilDiv(N, PageSize) |-> i]
            /\ resp.body.items = e.items
       /\ Len(e.items) < N =>
            /\ resp.body.requests = [i \in 1..FirstEmptyPage(Len(e.items)) |-> i]
            /\ resp.body.items = e.items

\* C18: for an upstream that reports record_count = N, holds N records and
\* serves pages of size P, the loop issues the page requests 1, 2, ...,
\* ceil(N / P), and one request when N = 0, and returns exactly the N records;
\* if a page returns no record before N is reached, the loop ends at that page
\* without error and returns the records fetched so far.
C18_PageRequests ==
  FetchedWithoutFailure =>
    LET e == halo[resp.arg.endpoint]
        N == e.record_count
    IN /\ ~resp.body.error
       /\ Len(e.items) = N =>
            /\ resp.body.requests = [i \in 1..Max(1, CeilDiv(N, PageSize)) |-> i]
            /\ resp.body.items = e.items
       /\ Len(e.items) < N =>
            /\ resp.body.requests = [i \in 1..FirstEmptyPage(Len(e.items)) |-> i]
            /\ resp.body.items = e.items

C18_Witness ==
  /\ resp.op = "fetchAllItems"
  /\ resp.arg = [endpoint |-> "tickets", failPage |-> 0]
  /\ halo.tickets.record_count = PageSize + 1
  /\ Len(halo.tickets.items) = PageSize + 1
  /\ resp.body.requests = <<1, 2>>
  /\ Len(resp.body.items) = PageSize + 1

----------------------------------------------------------------------------
(* Specification of the three providers' credentials: synchronisation runs  *)
(* and the monitoring and hosting routes, each with a credential that can   *)
(* or cannot be obtained.                                                   *)

InitCredentials ==
  /\ user_profiles \in ProfileFixtures
  /\ user_companies = {<<Cust, c>> : c \in CompanyIds}
  /\ companies = CompanyIds
  /\ company_halopsa_clients = HaloMappingFixture
  /\ company_ninjaone_orgs = OrgMappingFixture
  /\ company_domain_assignments = DomainAssignmentFixture
  /\ company_20i_stackcp_users = {}
  /\ clients = {OldClient}
  /\ tickets = {OldTicket}
  /\ feedback = {}
  /\ otherTickets = {}
  /\ otherFeedback = {}
  /\ ninjaDevices = AllDevices
  /\ twentyiDomains = AllDomains
  /\ halo = [clients |-> Endpoint(SubSeq(HaloClientPool, 1, NumHaloClients), NumHaloClients),
             tickets |-> Endpoint(SubSeq(HaloTicketPool, 1, PageSize), PageSize),
             feedback |-> SubSeq(HaloFeedbackPool, 1, 1)]
  /\ sync_metadata = <<>>
  /\ syncRun = IdleRun
  /\ accessToken = NULL
  /\ serverRunning = TRUE
  /\ CachesCold
  /\ nOps = 0
  /\ resp = NoAnswer
  /\ otherResp = NoAnswer

TokenFailureInputs == {NoFailure, Failure("token", 0)}

NextCredentials ==
  \/ \E caller \in {Admin1} : PostSync(caller)
  \/ \E fail \in TokenFailureInputs, expired \in BOOLEAN : SyncClientsStep(fail, expired)
  \/ \E fail \in TokenFailureInputs, expired \in BOOLEAN : SyncTicketsStep(fail, expired)
  \/ \E fail \in TokenFailureInputs, expired \in BOOLEAN : SyncFeedbackStep(fail, expired)
  \/ \E caller \in {Admin1, Cust}, tokenFails \in BOOLEAN : GetServersCold(caller, tokenFails)
  \/ \E caller \in {Admin1, Cust}, tokenFails \in BOOLEAN : GetDomainsCold(caller, tokenFails)

SpecCredentials == InitCredentials /\ [][NextCredentials]_vars

\* C20: failure to obtain an upstream credential is fatal to the calling
\* operation for each of the three providers: a synchronisation step fails
\* without fetching, a monitoring or hosting request is answered 5xx, and
\* nothing completes successfully with empty or partial data.
C20_CredentialFailureIsFatal ==
  /\ syncRun.last.authFailed =>
       /\ syncRun.last.outcome = "failed"
       /\ syncRun.last.requests = <<>>
  /\ ( /\ resp.op \in {"servers", "domains"}
       /\ HandlerInvoked
       /\ resp.arg.tokenFails )
     => resp.status >= 500

----------------------------------------------------------------------------
(* Specification of a background run and the two requests about it: POST    *)
(* /api/sync starts it, GET /api/sync/status reads its sync_metadata rows.  *)

InitBackground ==
  /\ InitSync
  /\ halo = [clients |-> Endpoint(SubSeq(HaloClientPool, 1, NumHaloClients), NumHaloClients),
             tickets |-> Endpoint(SubSeq(HaloTicketPool, 1, NumHaloTickets), NumHaloTickets),
             feedback |-> SubSeq(HaloFeedbackPool, 1, NumHaloFeedback)]

BackgroundFailureInputs == {NoFailure, Failure("token", 0), Failure("upsert", 1)}

NextBackground ==
  \/ \E caller \in {Admin1, Cust} : PostSync(caller)
  \/ \E fail \in BackgroundFailureInputs : SyncClientsStep(fail, TRUE)
  \/ \E fail \in BackgroundFailureInputs : SyncTicketsStep(fail, TRUE)
  \/ \E fail \in BackgroundFailureInputs : SyncFeedbackStep(fail, TRUE)
  \/ \E caller \in {Admin1, Cust} : GetSyncStatus(caller)

SpecBackground == InitBackground /\ [][NextBackground]_vars

\* POST /api/sync has just answered
SyncAcknowledged == resp'.op = "sync" /\ syncRun'.runs /= syncRun.runs

\* C21: POST /sync answers 200 while the run it started has not yet taken a
\* step; no later step of the run, failed or not, changes the answer already
\* sent or stops the server; what the run did is read only from the
\* sync_metadata rows that GET /sync/status returns, newest first.
C21_SyncIsFireAndForget ==
  [][ /\ SyncAcknowledged =>
           /\ resp'.status = 200
           /\ syncRun'.pc = "clients"
           /\ syncRun'.attempted = <<>>
           /\ UNCHANGED <<sync_metadata, psaTables>>
      /\ StepTaken =>
           /\ UNCHANGED <<resp, otherResp>>
           /\ serverRunning'
      /\ (resp'.op = "syncStatus" /\ ~StepTaken /\ ~SyncAcknowledged) =>
           /\ resp'.body = LatestSyncRows(sync_metadata)
           /\ UNCHANGED <<syncState, cacheState, psaTables>>
    ]_vars

\* the run failed after POST /sync had answered 200; the failure is on record
C21_Witness ==
  /\ resp.op = "sync"
  /\ resp.status = 200
  /\ syncRun.pc = "failed"
  /\ serverRunning
  /\ sync_metadata /= <<>>
  /\ sync_metadata[Len(sync_metadata)].status = "failed"

----------------------------------------------------------------------------
(* Specification of the satisfaction block: the feedback table holds rows   *)
(* of every kind of score, on tickets in and out of the caller's scope.     *)

NumScores == 5

\* 1 = satisfied, 2 = dissatisfied, 0 = another score, or none
ScoreInputs == {NoScore, 0, 1, 2}

TicketOfRow(i) == ((i - 1) % NumTickets) + 1

InitSatisfaction ==
  /\ user_profiles \in {p \in ProfileFixtures : p[Cust].active_company_id = CompanyNames[1]}
  /\ user_companies = {<<Cust, c>> : c \in CompanyIds}
  /\ companies = CompanyIds
  /\ company_halopsa_clients = HaloMappingFixture
  /\ company_ninjaone_orgs = {}
  /\ company_domain_assignments = {}
  /\ company_20i_stackcp_users = {}
  /\ clients = ClientRows
  /\ tickets = AllTickets
  /\ otherTickets = AllTickets
  /\ \E score \in [1..NumScores -> ScoreInputs] :
       feedback = {FeedbackRow(i, TicketOfRow(i), score[i]) : i \in 1..NumScores}
  /\ otherFeedback = feedback
  /\ ninjaDevices = {}
  /\ SyncIdle
  /\ twentyiDomains = {}
  /\ nOps = 0
  /\ resp = NoAnswer
  /\ otherResp = NoAnswer

NextSatisfaction ==
  \E caller \in {Admin1, Cust}, feedbackError \in BOOLEAN :
    GetDashboardStats(caller, feedbackError)

SpecSatisfaction == InitSatisfaction /\ [][NextSatisfaction]_vars

\* the feedback rows a dashboard answer is about
InScopeFeedback(ctx) ==
  IF ctx.isSuperAdmin THEN feedback
  ELSE {f \in feedback :
          \E t \in tickets : /\ t.id = f.ticket_id
                              /\ t.client_id \in AllowedClientIds(ctx.activeCompanyId)}

\* tenths is 100 * satisfied / total to one decimal
IsRateOf(tenths, satisfied, total) ==
  IF total = 0 THEN tenths = 0
  ELSE /\ 2 * (tenths * total - 1000 * satisfied) <= total
       /\ 2 * (1000 * satisfied - tenths * total) <= total

\* C22: in the dashboard satisfaction block over the in-scope feedback rows,
\* satisfied is the number of rows with score 1, dissatisfied the number with
\* score 2, total the number with a non-null score, and satisfactionRate is
\* 100 * satisfied / total to one decimal, 0 when total is 0.
C22_SatisfactionBlock ==
  (resp.op = "dashboard" /\ resp.status = 200 /\ resp.arg = FALSE) =>
    LET rows == InScopeFeedback(resp.ctx)
        block == resp.body.satisfaction
    IN /\ block.satisfied = Count({f \in rows : f.score = 1})
       /\ block.dissatisfied = Count({f \in rows : f.score = 2})
       /\ block.total = Count({f \in rows : f.score /= NoScore})
       /\ IsRateOf(block.satisfactionRate.tenths, block.satisfied, block.total)

----------------------------------------------------------------------------
(* Specification of the daily trend: the ticket table holds any of the      *)
(* tickets of the pool, one of them opened before the 365-day window and    *)
(* closed inside it.                                                        *)

TrendTickets == {TicketPool[i] : i \in 1..Len(TicketPool)}

InitTrend ==
  /\ user_profiles \in {p \in ProfileFixtures : p[Cust].active_company_id = CompanyNames[2]}
  /\ user_companies = {<<Cust, c>> : c \in CompanyIds}
  /\ companies = CompanyIds
  /\ company_halopsa_clients = HaloMappingFixture
  /\ company_ninjaone_orgs = {}
  /\ company_domain_assignments = {}
  /\ company_20i_stackcp_users = {}
  /\ clients = ClientRows
  /\ tickets \in SUBSET TrendTickets
  /\ otherTickets = tickets
  /\ feedback = {}
  /\ otherFeedback = {}
  /\ ninjaDevices = {}
  /\ SyncIdle
  /\ twentyiDomains = {}
  /\ nOps = 0
  /\ resp = NoAnswer
  /\ otherResp = NoAnswer

NextTrend ==
  \E caller \in {Admin1, Cust}, feedbackError \in BOOLEAN :
    GetDashboardStats(caller, feedbackError)

SpecTrend == InitTrend /\ [][NextTrend]_vars

\* the tickets a dashboard answer is about
InScopeTicketRows(ctx) ==
  IF ctx.isSuperAdmin THEN tickets
  ELSE {t \in tickets : t.client_id \in AllowedClientIds(ctx.activeCompanyId)}

\* C23: the dailyTrend list has exactly 365 entries, one for each day of the
\* window ending today in ascending order; the entry of day d has opened =
\* the number of in-scope tickets whose dateOccurred falls on d and closed =
\* the number of in-scope tickets whose dateClosed falls on d.
C23_DailyTrendCounts ==
  (resp.op = "dashboard" /\ resp.status = 200) =>
    LET rows == InScopeTicketRows(resp.ctx)
        trend == resp.body.dailyTrend
    IN /\ Len(trend) = TrendDays
       /\ \A k \in 1..Len(trend) :
            /\ trend[k].date = DayOf(Now) - (TrendDays - k)
            /\ trend[k].opened =
                 Count({t \in rows : DayOf(t.date_occurred) = trend[k].date})
            /\ trend[k].closed =
                 Count({t \in rows : /\ t.date_closed /= NoDate
                                      /\ DayOf(t.date_closed) = trend[k].date})

----------------------------------------------------------------------------
(* Specification of impersonation under user administration: admin2 is      *)
(* impersonating the customer, who has an active company or none, while     *)
(* users are updated and deleted.                                           *)

ImpersonationFixtures ==
  {   (Admin1 :> Profile(SUPER_ADMIN, NULL, NULL))
   @@ (Admin2 :> Profile(SUPER_ADMIN, NULL, Cust))
   @@ (Cust :> Profile(CUSTOMER, c, NULL)) : c \in {CompanyNames[1], NULL} }

InitImpersonation ==
  /\ user_profiles \in ImpersonationFixtures
  /\ user_companies = IF user_profiles[Cust].active_company_id = NULL THEN {}
                      ELSE {<<Cust, c>> : c \in CompanyIds}
  /\ companies = CompanyIds
  /\ company_halopsa_clients = HaloMappingFixture
  /\ company_ninjaone_orgs = {}
  /\ company_domain_assignments = {}
  /\ company_20i_stackcp_users = {}
  /\ clients = ClientRows
  /\ tickets = AllTickets
  /\ feedback = {}
  /\ otherTickets = tickets
  /\ otherFeedback = feedback
  /\ ninjaDevices = {}
  /\ SyncIdle
  /\ twentyiDomains = {}
  /\ nOps = 0
  /\ resp = NoAnswer
  /\ otherResp = NoAnswer

NextImpersonation ==
  \E caller \in AuthUsers :
    \/ \E t \in AuthUsers : PostImpersonate(caller, t)
    \/ PostStopImpersonation(caller)
    \/ \E u \in AuthUsers, role \in {Undefined, SUPER_ADMIN, CUSTOMER},
          companyIds \in {NotGiven, <<>>} :
         PutAdminUser(caller, u, role, companyIds)
    \/ \E u \in AuthUsers : DeleteAdminUser(caller, u)

SpecImpersonation == InitImpersonation /\ [][NextImpersonation]_vars

\* C24: POST /profile/stop-impersonation by user A answers 200 whatever A's
\* tenant resolution would give, leaves A's impersonatingUserId null and
\* every other profile (and A's other fields) as they were, so that A's next
\* tenant resolution is made from A's own role and active company.
C24_StopImpersonationUnconditional ==
  [][ resp'.op = "stop-impersonation" =>
        LET A == resp'.user
        IN /\ resp'.status = 200
           /\ DOMAIN user_profiles' = DOMAIN user_profiles
           /\ \A u \in DOMAIN user_profiles \ {A} : user_profiles'[u] = user_profiles[u]
           /\ A \in DOMAIN user_profiles =>
                /\ user_profiles'[A] =
                     [user_profiles[A] EXCEPT !.impersonating_user_id = NULL]
                /\ InjectCompanyContext(user_profiles', A) =
                     Resolved(user_profiles[A], user_profiles[A].role = SUPER_ADMIN, FALSE)
    ]_vars

\* admin2 has stopped impersonating a customer without active company: one
\* table change since the start, and it is the cleared impersonation
C24_Witness ==
  /\ resp.op = "stop-impersonation"
  /\ resp.user = Admin2
  /\ resp.status = 200
  /\ nOps = 1
  /\ Cust \in DOMAIN user_profiles
  /\ user_profiles[Cust] = Profile(CUSTOMER, NULL, NULL)
  /\ Admin2 \in DOMAIN user_profiles
  /\ user_profiles[Admin2] = Profile(SUPER_ADMIN, NULL, NULL)

\* C27: every profile whose impersonatingUserId is set has role super_admin,
\* and the profile it points to exists and has role customer, also after
\* users were updated or deleted while the impersonation was active.
C27_ImpersonationWellFormed ==
  \A u \in DOMAIN user_profiles :
    user_profiles[u].impersonating_user_id /= NULL =>
      /\ user_profiles[u].role = SUPER_ADMIN
      /\ user_profiles[u].impersonating_user_id \in DOMAIN user_profiles
      /\ user_profiles[user_profiles[u].impersonating_user_id].role = CUSTOMER

----------------------------------------------------------------------------
(* Specification of the token caches: callers ask for the PSA and the       *)
(* monitoring token while time passes; a token lives shorter than the       *)
(* safety margin or longer.                                                 *)

\* expires_in of a token: less than the margin, or the margin and two ticks
ExpiresInInputs(provider) == {TickSeconds \div 2, TokenMargin(provider) + 2 * TickSeconds}

InitTokens ==
  /\ InitTenant

NextTokens ==
  \/ Tick(TickSeconds)
  \/ \E c \in Callers : GetAccessTokenCall(c)
  \/ \E c \in Callers, e \in ExpiresInInputs("psa"), fails \in BOOLEAN :
       GetAccessTokenResponse(c, e, fails)
  \/ \E c \in Callers : GetNinjaOneTokenCall(c)
  \/ \E c \in Callers, e \in ExpiresInInputs("ninja"), fails \in BOOLEAN :
       GetNinjaOneTokenResponse(c, e, fails)

SpecTokens == InitTokens /\ [][NextTokens]_vars

ProviderOf(op) == IF op = "getAccessToken" THEN "psa" ELSE "ninja"

\* the instant up to which the claim lets a token be handed out
HandOutBefore(token, provider) ==
  token.issuedAt + token.expiresIn - TokenMargin(provider)

\* call c has just come to an end or to its token request
Moved(c) == calls'[c] /= calls[c]

\* C25: a token call returns the cached token only while the clock is before
\* time of issue + expires_in - margin (60 s for the PSA client, 300 s for
\* the monitoring client); with no token cached or that instant passed it
\* requests a new token, which replaces the cache and is returned; so no
\* cached token is returned within the margin of its expiry.
C25_TokenCacheMargin ==
  [][ \A c \in Callers : Moved(c) =>
        LET call == calls'[c]
            provider == ProviderOf(call.op)
            cache == tokenCache[provider]
            valid == /\ cache.token /= NoToken
                     /\ clock < HandOutBefore(cache.token, provider)
        IN /\ (calls[c].pc = "idle" /\ valid) =>
                /\ call.pc = "returned"
                /\ call.cached
                /\ call.result = {cache.token}
                /\ clock + TokenMargin(provider) < cache.token.issuedAt + cache.token.expiresIn
                /\ UNCHANGED <<tokenCache, upstreamCalls>>
           /\ (calls[c].pc = "idle" /\ ~valid) =>
                /\ call.pc = "waiting"
                /\ UNCHANGED <<tokenCache, upstreamCalls>>
           /\ (calls[c].pc = "waiting" /\ call.pc = "returned") =>
                /\ ~call.cached
                /\ \E token \in call.result :
                     /\ call.result = {token}
                     /\ token.issuedAt = clock
                     /\ token.serial /= tokenCache[provider].token.serial
                     /\ tokenCache'[provider].token = token
                     /\ tokenCache'[provider].expiresAt = HandOutBefore(token, provider)
                /\ upstreamCalls'[provider] = upstreamCalls[provider] + 1
           /\ (calls[c].pc = "waiting" /\ call.pc = "failed") =>
                UNCHANGED tokenCache
    ]_vars

\* one caller was handed a new monitoring token; the other began when that
\* token was within the margin of its expiry, not yet expired, and was handed
\* the next token
C25_Witness ==
  \E c, d \in Callers :
    /\ calls[c].pc = "returned"
    /\ calls[c].op = "getNinjaOneToken"
    /\ calls[d].pc = "returned"
    /\ calls[d].op = "getNinjaOneToken"
    /\ ~calls[d].cached
    /\ \E old \in calls[c].result, new \in calls[d].result :
         /\ new.serial = old.serial + 1
         /\ calls[d].at >= old.issuedAt
         /\ calls[d].at >= HandOutBefore(old, "ninja")
         /\ calls[d].at < old.issuedAt + old.expiresIn

----------------------------------------------------------------------------
(* Specification of concurrent callers of the cached functions: calls of    *)
(* getDomains, getServers and getAccessToken overlap while the providers'   *)
(* data change and the caches age beyond their TTL.                         *)

InitCaches ==
  /\ InitCredentials
  /\ user_profiles[Cust].active_company_id = CompanyNames[1]

NextCaches ==
  \/ Tick(CacheTtl)
  \/ \E devices \in {AllDevices, {DevicePool[1]}} : UpstreamChanges(devices, twentyiDomains)
  \/ \E domains \in {AllDomains, {DomainPool[1]}} : UpstreamChanges(ninjaDevices, domains)
  \/ \E c \in Callers : GetDomainsCall(c)
  \/ \E c \in Callers : GetDomainsAnswered(c)
  \/ \E c \in Callers : GetDomainsResponse(c)
  \/ \E c \in Callers : GetServersCall(c)
  \/ \E c \in Callers : GetServersAnswered(c)
  \/ \E c \in Callers : GetServersResponse(c)
  \/ \E c \in Callers : GetAccessTokenCall(c)
  \/ \E c \in Callers, e \in ExpiresInInputs("psa") : GetAccessTokenResponse(c, e, FALSE)

SpecCaches == InitCaches /\ [][NextCaches]_vars

ResourceOf(op) ==
  IF op = "getDomains" THEN "hosting"
  ELSE IF op = "getServers" THEN "monitoring"
  ELSE ProviderOf(op)

\* a payload whose summary is the summary of its items
CompletePayload(op, payload) ==
  IF op = "getDomains" THEN payload = DomainData(payload.items)
  ELSE payload = DeviceData(payload.items)

\* the calls that found the cache of a resource stale and have been answered
AnsweredStale(r) ==
  {c \in Callers : /\ calls[c].op /= "none"
                   /\ ResourceOf(calls[c].op) = r
                   /\ ~calls[c].cached
                   /\ calls[c].pc \in {"answered", "returned"}}

\* C26: under any interleaving of callers of getDomains, getServers and
\* getAccessToken that find the cache stale, no call fails and every call
\* that returns has a complete response, its own answer or what was cached;
\* every write of a cache puts there the payload of one answer with the
\* instant of the write (the token of one answer with its expiry), a cache
\* changes in no other step; the providers answer one request for each
\* caller that found the cache stale and nothing else is changed.
C26_BenignRefreshRace ==
  [][ /\ \A c \in Callers :
           /\ calls'[c].pc /= "failed"
           /\ (Moved(c) /\ calls'[c].pc = "returned") =>
                LET call == calls'[c]
                    r == ResourceOf(call.op)
                IN IF r \in DataClients
                   THEN /\ \E payload \in call.result :
                             /\ call.result = {payload}
                             /\ CompletePayload(call.op, payload)
                        /\ IF call.cached
                           THEN /\ call.result = dataCache[r].data
                                /\ UNCHANGED dataCache
                           ELSE /\ call.result = calls[c].answer
                                /\ dataCache'[r] = [data |-> calls[c].answer,
                                                    timestamp |-> clock]
                   ELSE /\ \E token \in call.result : call.result = {token}
                        /\ IF call.cached
                           THEN /\ call.result = {tokenCache[r].token}
                                /\ UNCHANGED tokenCache
                           ELSE \E token \in call.result :
                                  tokenCache'[r] =
                                    [token |-> token,
                                     expiresAt |-> HandOutBefore(token, r)]
      /\ (dataCache' /= dataCache \/ tokenCache' /= tokenCache) =>
           \E c \in Callers : /\ calls[c].pc \in {"waiting", "answered"}
                               /\ calls'[c].pc = "returned"
                               /\ \A r \in (DataClients \cup TokenProviders) \ {ResourceOf(calls[c].op)} :
                                    IF r \in DataClients THEN dataCache'[r] = dataCache[r]
                                    ELSE tokenCache'[r] = tokenCache[r]
      /\ \A r \in DataClients \cup {"psa"} :
           upstreamCalls'[r] = Cardinality(AnsweredStale(r)')
      /\ (calls' /= calls) => UNCHANGED <<Outside, upstream>>
    ]_vars

\* two calls of getServers overlapped, both found the cache stale and were
\* answered differently; both returned their own answer, and the cache holds
\* the answer written last; the provider was asked twice
C26_Witness ==
  \E c, d \in Callers :
    /\ c /= d
    /\ calls[c].pc = "returned"
    /\ calls[d].pc = "returned"
    /\ calls[c].op = "getServers"
    /\ calls[d].op = "getServers"
    /\ ~calls[c].cached
    /\ ~calls[d].cached
    /\ calls[c].result /= calls[d].result
    /\ upstreamCalls["monitoring"] = 2
    /\ dataCache["monitoring"].data = calls[d].result
    /\ dataCache["monitoring"].timestamp > calls[d].at

----------------------------------------------------------------------------
(* Specification of mapping replacement under reads: an admin replaces the  *)
(* PSA clients and the monitoring organisations of company c1 while its     *)
(* customer reads ticket statistics and the server list.                    *)

\* company c1 is mapped to clients 5 and 9 and to organisation 11
ClientIdSets == {{}, {7}, {5, 57}}
OrgIdSets == {{}, {11}, {13}}

InitMappings ==
  /\ user_profiles = (Admin1 :> Profile(SUPER_ADMIN, NULL, NULL))
                     @@ (Admin2 :> Profile(SUPER_ADMIN, NULL, Cust))
                     @@ (Cust :> Profile(CUSTOMER, CompanyNames[1], NULL))
  /\ user_companies = {<<Cust, c>> : c \in CompanyIds}
  /\ companies = CompanyIds
  /\ company_halopsa_clients = HaloMappingFixture
  /\ company_ninjaone_orgs = OrgMappingFixture
  /\ company_domain_assignments = {}
  /\ company_20i_stackcp_users = {}
  /\ clients = ClientRows
  /\ tickets = AllTickets
  /\ feedback = {}
  /\ otherTickets = tickets
  /\ otherFeedback = feedback
  /\ ninjaDevices = AllDevices
  /\ SyncIdle
  /\ twentyiDomains = {}
  /\ nOps = 0
  /\ resp = NoAnswer
  /\ otherResp = NoAnswer

NextMappings ==
  \/ \E c \in Callers, caller \in {Admin1, Cust}, ids \in ClientIdSets \cup {NotAnArray} :
       PostHalopsaClients(c, caller, CompanyNames[1], ids)
  \/ \E c \in Callers, dbError \in BOOLEAN : PostHalopsaClientsInsert(c, dbError)
  \/ \E c \in Callers, caller \in {Admin1, Cust}, ids \in OrgIdSets \cup {NotAnArray} :
       PostNinjaoneOrgs(c, caller, CompanyNames[1], ids)
  \/ \E c \in Callers, dbError \in BOOLEAN : PostNinjaoneOrgsInsert(c, dbError)
  \/ \E caller \in {Cust, Admin2} : GetServers(caller, FALSE)
  \/ \E caller \in {Cust, Admin2}, clientId \in {<<"5">>, <<"7">>} :
       GetTicketStats(caller, clientId, EverSince.startDate, EverSince.endDate, FALSE)

SpecMappings == InitMappings /\ [][NextMappings]_vars

\* what the company is, was or was asked to be mapped to: the rows it has and
\* the old and new sets of the replacements requested so far
OldAndNew(table, op, companyId) ==
  {x[2] : x \in {y \in MappingRows(table) : y[1] = companyId}}
  \cup UNION {r.old \cup r.ids :
                r \in UNION {calls[c].answer :
                               c \in {d \in Callers : calls[d].op = op}}}

\* C29: a read by a customer of the company (or by an admin impersonating
\* them) that is answered while the company's PSA-client or monitoring-org
\* mappings are being replaced, also between the delete and the insert and
\* after a failed insert, returns only tickets of clients and servers of
\* organisations in the union of the old and the new mapping set.
C29_ReadsWithinOldAndNew ==
  [][ (resp' /= resp /\ resp'.status = 200 /\ ~resp'.ctx.isSuperAdmin) =>
        /\ resp'.op = "ticket-stats" =>
             \A i \in 1..Len(resp'.body) : \A id \in resp'.body[i].tickets :
               \E t \in tickets :
                 /\ t.id = id
                 /\ t.client_id \in OldAndNew("company_halopsa_clients",
                                               "post-halopsa-clients",
                                               resp'.ctx.activeCompanyId)
        /\ resp'.op = "servers" =>
             \A item \in resp'.body.items :
               \E d \in ninjaDevices :
                 /\ d.id = item.id
                 /\ d.organizationId \in OldAndNew("company_ninjaone_orgs",
                                                    "post-ninjaone-orgs",
                                                    resp'.ctx.activeCompanyId)
    ]_vars

----------------------------------------------------------------------------
(* Specification of the admin routes: every route under /admin/users,       *)
(* /admin/companies and /admin/domain-assignments is called by admins,      *)
(* by an admin who is impersonating, by the customer and by a user without  *)
(* profile, while roles are changed.                                        *)

InitAdminRoutes ==
  /\ InitImpersonation
  /\ user_profiles[Cust].active_company_id = CompanyNames[1]

NextAdminRoutes ==
  \E caller \in AuthUsers :
    \/ GetAdminUsers(caller)
    \/ PostAdminUser(caller, CUSTOMER, <<CompanyNames[1]>>)
    \/ \E u \in {Admin2, Cust}, role \in {SUPER_ADMIN, CUSTOMER} :
         PutAdminUser(caller, u, role, NotGiven)
    \/ DeleteAdminUser(caller, Cust)
    \/ GetAdminCompanies(caller)
    \/ GetAvailableClients(caller)
    \/ PostCompany(caller, CompanyNames[NumCompanies + 1])
    \/ PutCompany(caller, CompanyNames[2])
    \/ PostHalopsaClients(1, caller, CompanyNames[2], {9})
    \/ PostHalopsaClientsInsert(1, FALSE)
    \/ PostNinjaoneOrgs(1, caller, CompanyNames[2], {13})
    \/ PostNinjaoneOrgsInsert(1, FALSE)
    \/ DeleteCompany(caller, CompanyNames[2])
    \/ GetDomainAssignments(caller)
    \/ PostDomainAssignments(caller, <<Assignment(<<"b", ".", "c">>, CompanyNames[1])>>)
    \/ DeleteDomainAssignment(caller, <<"b", ".", "c">>)
    \/ DeleteCompanyDomainAssignments(caller, CompanyNames[1])

SpecAdminRoutes == InitAdminRoutes /\ [][NextAdminRoutes]_vars

AdminOps ==
  {"get-users", "post-user", "put-user", "delete-user",
   "get-companies", "get-available-clients", "post-company", "put-company",
   "post-halopsa-clients", "post-ninjaone-orgs", "delete-company",
   "get-domain-assignments", "post-domain-assignments", "delete-domain-assignment",
   "delete-company-domain-assignments"}

\* the role that counts for a request of user u: the impersonated user's role
\* if u is a super admin who impersonates, u's own role otherwise
EffectiveRole(profiles, u) ==
  IF u \notin DOMAIN profiles THEN "none"
  ELSE IF profiles[u].role = SUPER_ADMIN /\ profiles[u].impersonating_user_id /= NULL
       THEN IF profiles[u].impersonating_user_id \in DOMAIN profiles
            THEN profiles[profiles[u].impersonating_user_id].role
            ELSE "none"
       ELSE profiles[u].role

\* the step is a request arriving, not the rest of a handler that had passed
\* the gate
RequestArrives ==
  \A c \in Callers : calls[c].pc = "inserting" => calls'[c].pc = "inserting"

\* C28: a request to a route under /admin/users, /admin/companies or
\* /admin/domain-assignments by a caller whose effective role is not
\* super_admin (a customer, a user without profile, a super admin who is
\* impersonating a customer) is answered 403 and no table changes.
C28_AdminRoutesNeedEffectiveSuperAdmin ==
  [][ ( /\ resp'.op \in AdminOps
        /\ RequestArrives
        /\ EffectiveRole(user_profiles, resp'.user) /= SUPER_ADMIN )
      => /\ resp'.status = 403
         /\ UNCHANGED <<tenantTables, mappingTables, psaTables>>
    ]_vars

----------------------------------------------------------------------------
(* Specification of overlapping synchronisation runs: two runs, started by  *)
(* POST /api/sync or by cron, take their steps in any order against an      *)
(* upstream that does not change, while time passes.                        *)

OverlapFailureInputs == {NoFailure, Failure("upsert", 1)}

NextOverlap ==
  \/ clock = StartClock /\ Tick(TickSeconds)
  \/ \E c \in Callers, viaCron \in BOOLEAN : StartRun(c, viaCron)
  \/ \E c \in Callers, fail \in OverlapFailureInputs : RunClientsStep(c, fail)
  \/ \E c \in Callers, fail \in OverlapFailureInputs : RunTicketsStep(c, fail)
  \/ \E c \in Callers, fail \in OverlapFailureInputs : RunFeedbackStep(c, fail)

SpecOverlap == InitBackground /\ [][NextOverlap]_vars

\* what the upstream serves
UpstreamClients == FetchAllItems(halo.clients, 0).items
UpstreamTickets == FetchAllItems(halo.tickets, 0).items
UpstreamFeedback == FetchAllFeedback(halo.feedback, 0).items

\* the tables a single run leaves, starting from the old client and the old
\* ticket: the old and the upstream tickets, the upstream clients with the
\* date of their last ticket, the upstream feedback of these tickets
SingleRunTickets ==
  {OldTicket} \cup {TransformTicket(UpstreamTickets[i], 0) : i \in 1..Len(UpstreamTickets)}
SingleRunClients ==
  UpdateClientLastTicketDates(
    {OldClient} \cup {Merged(ClientDefaults, TransformClient(UpstreamClients[i], 0)) :
                        i \in 1..Len(UpstreamClients)},
    SingleRunTickets)
SingleRunFeedback ==
  {TransformFeedback(UpstreamFeedback[i], 0) :
     i \in {j \in 1..Len(UpstreamFeedback) :
              \E t \in SingleRunTickets : t.id = UpstreamFeedback[j].ticket_id}}

Runs == {c \in Callers : calls[c].op = "performFullSync"}

\* C30: when every run that was started has completed, be it one run or two
\* runs whose steps overlapped, the clients, tickets and feedback tables
\* hold the rows and field values, other than updated_at, that a single run
\* leaves, and no key twice.
C30_OverlappingRunsAsSingleRun ==
  (Runs /= {} /\ \A c \in Runs : calls[c].pc = "done")
  => /\ Content(clients) = Content(SingleRunClients)
     /\ Content(tickets) = Content(SingleRunTickets)
     /\ Content(feedback) = Content(SingleRunFeedback)
     /\ NoKeyTwice(clients) /\ NoKeyTwice(tickets) /\ NoKeyTwice(feedback)

\* a run started by POST /api/sync and a run started by cron took their steps
\* in turn, the second one later; both have completed
C30_Witness ==
  /\ Runs = Callers
  /\ \A c \in Runs : calls[c].pc = "done"
  /\ \E c, d \in Runs : calls[c].cached /\ ~calls[d].cached
  /\ Len(sync_metadata) = 6
  /\ [i \in 1..6 |-> sync_metadata[i].sync_type]
       = <<"clients", "clients", "tickets", "tickets", "feedback", "feedback">>
  /\ \E t \in tickets : t.updated_at > StartClock
  /\ feedback /= {}
  /\ Cardinality(tickets) = NumHaloTickets + 1

====
